---- MODULE Spec2Model ----
(***************************************************************************)
(* Model of the cross-domain context of rutabaga_gfx                       *)
(* (src/src/cross_domain/mod.rs): the dispatcher (guest commands on the    *)
(* caller's thread), the worker thread, the futex watcher threads, the     *)
(* external server and the guest's stores to shared futex words.           *)
(***************************************************************************)
EXTENDS Integers, Sequences, FiniteSets, TLC

\* ------------------------------------------------------------------ bounds
\* Number of calls the guest makes on the context, attach and detach aside,
\* the drop of the context included.
MaxCmds == 4
\* Number of commands in a command buffer the guest submits as a whole.
MaxBufCmds == 2
\* Number of loop iterations of one submit_cmd call that are followed.
MaxIters == 4

\* ------------------------------------------------------- program constants
CROSS_DOMAIN_CONTEXT_CHANNEL_ID == 1
CROSS_DOMAIN_RESAMPLE_ID == 2
CROSS_DOMAIN_KILL_ID == 3
\* Constants of cross_domain_protocol.rs.  The two range constants keep
\* their order (the futex range lies below the read-pipe range) and are
\* scaled from u32 so that TLC's integers can hold them.
CROSS_DOMAIN_FUTEX_START == 536870912
CROSS_DOMAIN_PIPE_READ_START == 1073741824
CROSS_DOMAIN_QUERY_RING == 0
CROSS_DOMAIN_CHANNEL_RING == 1
CROSS_DOMAIN_MAX_IDENTIFIERS == 4
CROSS_DOMAIN_CMD_INIT == 1
CROSS_DOMAIN_CMD_POLL == 3
\* Sizes in bytes: a u32, the command header {cmd, cmd_size}, and the two
\* layouts of INIT (header, query_ring_id, [channel_ring_id,] channel_type).
SIZE_OF_U32 == 4
SIZE_OF_CrossDomainHeader == 8
SIZE_OF_CrossDomainInit == 20
SIZE_OF_CrossDomainInitLegacy == 16

\* ------------------------------------------------------------- input sets
\* Guest resource ids that attach/detach and INIT may name.
ResIds == {7, 8}
\* What attach installs: a guest-memory iovec list or a host handle.
AttachKinds == {"iovecs", "handle"}
\* Resource ids the guest attaches; the others stay unknown to the context.
AttachIds == {7}
\* channel_type values of INIT: 0 = no channel, 1 = a permitted path,
\* 5 = no permitted path of that type.
ChannelTypes == {0, 1, 5}
\* Channel types of the component's permitted paths.
PathTypes == {1}
\* Futex ids the guest may choose (futex_new accepts any u32): one inside
\* the futex range and one that is also the first item id and the RESAMPLE
\* connection id.
FutexIds == {CROSS_DOMAIN_FUTEX_START, 2}
\* Values of a shared futex word (a u32 scaled to two bits).
WordVals == 0 .. 3
\* Messages of the server: the descriptors attached, as determine_type sees
\* them ("Memory", "WritePipe" or anything else), and whether the payload
\* is longer than the room behind the header in the channel ring's iovec.
Msg(files, big) == [files |-> files, big |-> big]
ServerMsgs == {Msg(<<>>, FALSE), Msg(<<>>, TRUE), Msg(<<"Memory">>, FALSE),
               Msg(<<"WritePipe">>, FALSE), Msg(<<"Other">>, FALSE)}

VARIABLES
    context_resources,  \* ContextResources: resource id -> "absent", or which
                        \* fields of the entry are set
    items,              \* CrossDomainItems: descriptor_id, read_pipe_id, table
    paths,              \* CrossDomainContext.paths is Some
    state,              \* CrossDomainContext.state (which CrossDomainState object)
    wstate,             \* the CrossDomainState object the worker thread holds
    wjobs,              \* job queue of the worker's state object
    worker,             \* worker thread: pc, held fence (0: none), serviced event
    wait_ctx,           \* the worker's WaitContext: set of <<connection id, source>>
    resample_evt,       \* "none" (the Option is None), "clear" or "signaled"
    kill_evt,           \* "none", "clear" or "signaled"
    futexes,            \* futex table: id -> CrossDomainFutex (plus its watcher)
    channel,            \* messages of the server waiting on the stream socket
    pipes,              \* server side of the read pipes: id -> data/closed
    dpc,                \* dispatcher position (blocking points of a command)
    commands,           \* submit_cmd: the rest of the command buffer, in u32 words
    ncmd,               \* calls the dispatcher has started
    result,             \* what the last dispatcher call returned
    nextFence,          \* next fence id the guest creates
    signaled,           \* fence ids in the order fence_handler.call received them
    mapped,             \* futex ids whose 4-byte mapping is mapped
    assigned,           \* observation: <<kind, id>> of every add_item, in order
    enqueued,           \* observation: fences context_create_fence enqueued, in order
    requeued,           \* observation: fences handle_fence enqueued again
    job,                \* observation: what the worker did in its current job
    call,               \* observation: the last call of the guest and whether it
                        \* put a message on the stream socket
    rings,              \* the first iovec of each ring resource: the header and
                        \* the payload written into it last
    hung_up_ids,        \* observation: ids on which a WRITE with hang_up = 1 returned Ok
    reads,              \* observation: the READ records the worker wrote, in order
    blob,               \* the last create_blob of the component: the request and
                        \* what it returned
    locks               \* per thread: the Mutex guards it holds (innermost last)
                        \* and the lock events its handler has still to make

vars == <<context_resources, items, paths, state, wstate, wjobs, worker,
          wait_ctx, resample_evt, kill_evt, futexes, channel, pipes, dpc,
          commands, ncmd, result, nextFence, signaled, mapped, assigned, enqueued,
          requeued, job, call, rings, hung_up_ids,
          reads, blob, locks>>

\* ------------------------------------------------------------------ helpers
Job(t, a) == [type |-> t, arg |-> a]

Max(a, b) == IF a >= b THEN a ELSE b

Range(s) == {s[i] : i \in DOMAIN s}

\* f with key k mapped to v (Map::insert)
MapInsert(f, k, v) == [x \in (DOMAIN f) \cup {k} |-> IF x = k THEN v ELSE f[x]]

\* f without key k (Map::remove)
MapRemove(f, k) == [x \in (DOMAIN f) \ {k} |-> f[x]]

EmptyMap == [x \in {} |-> 0]

\* A waitset entry: the connection id it was added with and the descriptor
\* behind it (k: "channel", "resample", "kill", "futex" or "pipe").
Src(cid, k, id) == [cid |-> cid, k |-> k, id |-> id]

\* ---------------------------------------------------------------- add_item
\* add_item with one counter for both kinds of identifier.
add_item_id_one_counter(its, kind) ==
    IF kind = "WaylandReadPipe"
    THEN Max(its.read_pipe_id + its.descriptor_id, CROSS_DOMAIN_PIPE_READ_START)
    ELSE its.descriptor_id + 1

\* The identifier add_item gives to an item of kind `kind`.
add_item_id(its, kind) ==
    IF kind = "WaylandReadPipe"
    THEN Max(its.read_pipe_id + 1, CROSS_DOMAIN_PIPE_READ_START)
    ELSE its.descriptor_id + 1

\* The item table after add_item.
add_item(its, kind) ==
    IF kind = "WaylandReadPipe"
    THEN [its EXCEPT !.read_pipe_id = its.read_pipe_id + 1,
                     !.table = MapInsert(its.table, add_item_id(its, kind), kind)]
    ELSE [its EXCEPT !.descriptor_id = its.descriptor_id + 1,
                     !.table = MapInsert(its.table, add_item_id(its, kind), kind)]

\* CrossDomainItems::default
CrossDomainItems_default ==
    [descriptor_id |-> 1,
     read_pipe_id |-> CROSS_DOMAIN_PIPE_READ_START,
     table |-> EmptyMap]

NoEvent == [cid |-> 0, k |-> "none", id |-> 0, readable |-> FALSE, hung_up |-> FALSE]

\* -------------------------------------------------------------------- Init
\* A call of the guest: the operation, the item identifier it names (0 when
\* it names none; for FUTEX_SIGNAL the value the shared word had at the
\* call) and whether send_msg returned Ok in it.
Called(op, arg, sent) == [op |-> op, arg |-> arg, sent |-> sent]

NoState == [obj |-> "none", query_ring_id |-> 0, channel_ring_id |-> 0,
            connection |-> FALSE]

\* What the worker did in the job it took last: the fence it holds, the arm
\* that served the event, the number of waitset services, ring writes and
\* fence signals, the ring writes since the last fence signal, and the futex
\* entries whose FUTEX_DESTROY had returned when the job was taken.
NoJob == [fence |-> 0, event |-> "none", services |-> 0, writes |-> 0,
          signals |-> 0, unsignaled |-> 0, destroyed |-> {}]

\* No create_blob has been called.
NoBlob == [called |-> FALSE, resource_id |-> 0,
           request |-> [blob_mem |-> "none", blob_flags |-> {}, size |-> 0],
           iovec_opt |-> "None", returned |-> [err |-> "none"]]

\* CrossDomain::create_context
\* The four Mutexes of a context and the threads that take them (a watcher
\* takes none).
Mutexes == {"item_state", "futexes", "context_resources", "jobs"}
Threads == {"dispatcher", "worker"}

NoLocks == [t \in Threads |-> [held |-> <<>>, path |-> <<>>]]

Init ==
    /\ context_resources = [r \in ResIds |-> "absent"]
    /\ items = CrossDomainItems_default
    /\ paths = TRUE
    /\ state = NoState
    /\ wstate = NoState
    /\ wjobs = <<>>
    /\ worker = [pc |-> "none", fence |-> 0, event |-> NoEvent]
    /\ wait_ctx = {}
    /\ resample_evt = "none"
    /\ kill_evt = "none"
    /\ futexes = EmptyMap
    /\ channel = <<>>
    /\ pipes = EmptyMap
    /\ dpc = [pc |-> "idle", arg |-> 0]
    /\ commands = <<>>
    /\ ncmd = 0
    /\ result = "none"
    /\ nextFence = 1
    /\ signaled = <<>>
    /\ mapped = {}
    /\ assigned = <<>>
    /\ enqueued = <<>>
    /\ requeued = {}
    /\ job = NoJob
    /\ call = Called("none", 0, FALSE)
    /\ hung_up_ids = {}
    /\ rings = [r \in ResIds |-> [hdr |-> "none", payload |-> "none"]]
    /\ reads = <<>>
    /\ blob = NoBlob
    /\ locks = NoLocks

\* ------------------------------------------------------------ shared state
\* add_job with push_front.
add_job_front(jobs, j) == <<j>> \o jobs

\* CrossDomainState::add_job: push_back on the queue.
add_job(jobs, j) == Append(jobs, j)

\* CrossDomainState::add_job on the state object `obj`: the queues after it.
\* wjobs is the queue of the object the worker holds.  A job added to an
\* object that only the context holds is never taken by anyone: that queue
\* is not part of the state.
add_job_w(obj, j) == IF obj = "worker" THEN add_job(wjobs, j) ELSE wjobs

\* context_resources.get(&id): ids nobody attaches are absent.
Resource(id) ==
    IF id \in DOMAIN context_resources THEN context_resources[id] ELSE "absent"

\* What write_to_ring returns for ring resource ring_id before it writes
\* anything: the resource must be attached and carry iovecs.
write_to_ring_check(ring_id) ==
    IF Resource(ring_id) = "absent" THEN "InvalidResourceId"
    ELSE IF Resource(ring_id) # "iovecs" THEN "InvalidIovec"
    ELSE "ok"

\* write_to_ring, RingWrite::Write(cmd, opaque_data_opt): the error it returns
\* and the rings as it leaves them.  The header goes into the iovec first;
\* `opaque` says whether a payload follows and `big` whether that payload is
\* longer than the room behind the header.
write_to_ring(ring_id, cmd, opaque, big) ==
    IF write_to_ring_check(ring_id) # "ok"
    THEN [err |-> write_to_ring_check(ring_id), rings |-> rings]
    ELSE IF opaque /\ big
    THEN [err |-> "InvalidIovec",
          rings |-> [rings EXCEPT ![ring_id].hdr = cmd]]
    ELSE [err |-> "ok",
          rings |-> [rings EXCEPT ![ring_id] =
                       [hdr |-> cmd,
                        payload |-> IF opaque THEN cmd ELSE @.payload]]]

\* fence_handler.call(fence)
fence_handler_call(f) == Append(signaled, f)

Idle == dpc.pc = "idle"

\* A call of the guest starts.
Call == Idle /\ ncmd < MaxCmds /\ ncmd' = ncmd + 1

\* ------------------------------------------------------------------ attach
\* ContextResource { handle, backing_iovecs } by which of its fields are set.
ContextResource(handle, backing_iovecs) ==
    IF handle /\ backing_iovecs THEN "both"
    ELSE IF handle THEN "handle"
    ELSE IF backing_iovecs THEN "iovecs"
    ELSE "neither"

\* What attach inserts for a resource: guest memory enters with whatever
\* backing_iovecs.take() yields and no handle, any other resource with its
\* handle when it has one; a resource with neither is not inserted
\* ("unchanged").
attach_inserts(blob_mem, handle, backing_iovecs) ==
    IF blob_mem = "GUEST"
    THEN ContextResource(FALSE, backing_iovecs = "Some")
    ELSE IF handle = "Some"
    THEN ContextResource(TRUE, FALSE)
    ELSE "unchanged"

\* attach of a resource made elsewhere: guest memory with its iovecs
\* (kind "iovecs") or a host resource with its handle (kind "handle").  The
\* entry replaces an earlier one under the same id.
attach(r, kind) ==
    /\ Idle
    /\ context_resources' =
          [context_resources EXCEPT ![r] =
              IF kind = "iovecs" THEN attach_inserts("GUEST", "None", "Some")
              ELSE attach_inserts("HOST3D", "Some", "None")]
    /\ UNCHANGED <<items, paths, state, wstate, wjobs, worker, wait_ctx,
                   resample_evt, kill_evt, futexes, channel, pipes, dpc, commands,
                   ncmd, result, nextFence, signaled, mapped, assigned, enqueued,
                   requeued, job, call, rings, hung_up_ids, reads, blob, locks>>

\* attach of the resource the component's create_blob returned last:
\* backing_iovecs.take() leaves the resource without its iovecs.
attach_blob ==
    /\ Idle
    /\ blob.returned.err = "ok"
    /\ attach_inserts(blob.returned.blob_mem, blob.returned.handle,
                      blob.returned.backing_iovecs) # "unchanged"
    /\ context_resources' =
          [context_resources EXCEPT ![blob.returned.resource_id] =
              attach_inserts(blob.returned.blob_mem, blob.returned.handle,
                             blob.returned.backing_iovecs)]
    /\ blob' = IF blob.returned.blob_mem = "GUEST"
               THEN [blob EXCEPT !.returned.backing_iovecs = "None"]
               ELSE blob
    /\ UNCHANGED <<items, paths, state, wstate, wjobs, worker, wait_ctx,
                   resample_evt, kill_evt, futexes, channel, pipes, dpc, commands,
                   ncmd, result, nextFence, signaled, mapped, assigned, enqueued,
                   requeued, job, call, rings, hung_up_ids, reads, locks>>

detach(r) ==
    /\ Idle
    /\ context_resources' = [context_resources EXCEPT ![r] = "absent"]
    /\ UNCHANGED <<items, paths, state, wstate, wjobs, worker, wait_ctx,
                   resample_evt, kill_evt, futexes, channel, pipes, dpc, commands,
                   ncmd, result, nextFence, signaled, mapped, assigned, enqueued,
                   requeued, job, call, rings, hung_up_ids, reads, blob, locks>>

\* -------------------------------------------------------------- initialize
\* What get_connection returns: paths is taken first, then searched.
get_connection(channel_type) ==
    IF ~paths THEN "InvalidCrossDomainChannel"
    ELSE IF channel_type \notin PathTypes THEN "InvalidCrossDomainChannel"
    ELSE "ok"

\* What initialize returns.
initialize_result(q, c, t) ==
    IF Resource(q) = "absent" THEN "InvalidResourceId"
    ELSE IF t = 0 THEN "ok"
    ELSE IF Resource(c) = "absent" THEN "InvalidResourceId"
    ELSE get_connection(t)

\* Whether initialize reached get_connection (which takes self.paths).
initialize_takes_paths(q, c, t) ==
    /\ Resource(q) # "absent"
    /\ t # 0
    /\ Resource(c) # "absent"

\* What initialize does to the context.
initialize_do(q, c, t) ==
    /\ paths' = IF initialize_takes_paths(q, c, t) THEN FALSE ELSE paths
    /\ IF initialize_result(q, c, t) # "ok"
       THEN UNCHANGED <<state, wstate, wjobs, worker, wait_ctx,
                        resample_evt, kill_evt>>
       ELSE IF t # 0
       THEN /\ state' = [obj |-> "worker", query_ring_id |-> q,
                         channel_ring_id |-> c, connection |-> TRUE]
            /\ wstate' = state'
            /\ wjobs' = <<>>
            /\ wait_ctx' = {Src(CROSS_DOMAIN_CONTEXT_CHANNEL_ID, "channel", 0)}
            /\ worker' = [pc |-> "start", fence |-> 0, event |-> NoEvent]
            /\ resample_evt' = "clear"
            /\ kill_evt' = "clear"
       ELSE /\ state' = [obj |-> "local", query_ring_id |-> q,
                         channel_ring_id |-> c, connection |-> FALSE]
            /\ UNCHANGED <<wstate, wjobs, worker, wait_ctx, resample_evt, kill_evt>>

\* A command buffer that holds one INIT in the full layout.
initialize(q, c, t) ==
    /\ Call
    /\ call' = Called("initialize", 0, FALSE)
    /\ result' = initialize_result(q, c, t)
    /\ initialize_do(q, c, t)
    /\ UNCHANGED <<context_resources, items, futexes, channel, pipes, dpc,
                   commands, nextFence, signaled, mapped, assigned, enqueued,
                   requeued, job, rings, hung_up_ids, reads, blob, locks>>

\* -------------------------------------------------------------- submit_cmd
\* Command buffers are sequences of u32 words and every cmd_size is a
\* multiple of four bytes.  The commands the guest puts into a buffer here:
\* INIT in the legacy and in the full layout (ring 7, channel types 0 and
\* 1), POLL, a POLL whose cmd_size is 0, a POLL whose cmd_size overruns it,
\* and a command with an unknown tag.
BufCmds ==
    {<<CROSS_DOMAIN_CMD_INIT, SIZE_OF_CrossDomainInitLegacy, 7, t>> : t \in {0, 1}}
    \cup {<<CROSS_DOMAIN_CMD_INIT, SIZE_OF_CrossDomainInit, 7, 7, t>> : t \in {0, 1}}
    \cup {<<CROSS_DOMAIN_CMD_POLL, SIZE_OF_CrossDomainHeader>>,
          <<CROSS_DOMAIN_CMD_POLL, 0>>,
          <<CROSS_DOMAIN_CMD_POLL, SIZE_OF_CrossDomainHeader + SIZE_OF_U32>>,
          <<0, SIZE_OF_CrossDomainHeader>>}

\* The buffers of up to n commands.
RECURSIVE BuffersOf(_)
BuffersOf(n) ==
    IF n = 0 THEN {<<>>}
    ELSE {b \o c : b \in BuffersOf(n - 1), c \in BufCmds} \cup BuffersOf(n - 1)

\* The buffers the guest submits: up to MaxBufCmds commands, the last of
\* which may be cut off in the middle of its header.
CommandBuffers ==
    (BuffersOf(MaxBufCmds) \ {<<>>})
    \cup {b \o <<CROSS_DOMAIN_CMD_POLL>> : b \in BuffersOf(MaxBufCmds - 1)}

\* T::read_from_prefix(buf) succeeds when buf holds size_of::<T>() bytes.
read_from_prefix(buf, size) == Len(buf) * SIZE_OF_U32 >= size

CrossDomainInit(q, c, t) ==
    [query_ring_id |-> q, channel_ring_id |-> c, channel_type |-> t]

\* The INIT command submit_cmd reads at the head of buf: the full layout if
\* buf is long enough for it, else the legacy layout with the query ring
\* in both ring fields, else nothing.
read_init(buf) ==
    IF read_from_prefix(buf, SIZE_OF_CrossDomainInit)
    THEN [ok |-> TRUE, cmd |-> CrossDomainInit(buf[3], buf[4], buf[5])]
    ELSE IF read_from_prefix(buf, SIZE_OF_CrossDomainInitLegacy)
    THEN [ok |-> TRUE, cmd |-> CrossDomainInit(buf[3], buf[3], buf[4])]
    ELSE [ok |-> FALSE, cmd |-> CrossDomainInit(0, 0, 0)]

\* commands.get_mut(cmd_size..): the rest of the buffer behind the command,
\* if the buffer is that long.
rest_fits(buf, cmd_size) == cmd_size \div SIZE_OF_U32 <= Len(buf)

rest(buf, cmd_size) == SubSeq(buf, cmd_size \div SIZE_OF_U32 + 1, Len(buf))

\* What the handler of the command at the head of buf returns.
handler_result(buf) ==
    IF buf[1] = CROSS_DOMAIN_CMD_INIT
    THEN IF ~read_init(buf).ok THEN "InvalidCommandBuffer"
         ELSE initialize_result(read_init(buf).cmd.query_ring_id,
                                read_init(buf).cmd.channel_ring_id,
                                read_init(buf).cmd.channel_type)
    ELSE IF buf[1] = CROSS_DOMAIN_CMD_POLL THEN "ok"
    ELSE "invalid cross domain command"

\* What one iteration of the loop returns, "continue" when the loop goes on.
iteration_result(buf) ==
    IF ~read_from_prefix(buf, SIZE_OF_CrossDomainHeader) THEN "InvalidCommandBuffer"
    ELSE IF handler_result(buf) # "ok" THEN handler_result(buf)
    ELSE IF ~rest_fits(buf, buf[2]) THEN "InvalidCommandSize"
    ELSE "continue"

\* The guest submits a command buffer.
submit_cmd(buf) ==
    /\ Call
    /\ call' = Called("submit_cmd", 0, FALSE)
    /\ commands' = buf
    /\ dpc' = [pc |-> "submit_cmd", arg |-> 0]
    /\ result' = "pending"
    /\ UNCHANGED <<context_resources, items, paths, state, wstate, wjobs, worker,
                   wait_ctx, resample_evt, kill_evt, futexes, channel, pipes,
                   nextFence, signaled, mapped, assigned, enqueued, requeued, job,
                   rings, hung_up_ids, reads, blob, locks>>

\* One pass through `while !commands.is_empty()`; dpc.arg counts the
\* iterations of the call.
submit_cmd_loop ==
    /\ dpc.pc = "submit_cmd"
    /\ dpc.arg < MaxIters
    /\ IF commands = <<>>
       THEN /\ result' = "ok"
            /\ dpc' = [pc |-> "idle", arg |-> 0]
            /\ UNCHANGED <<commands, paths, state, wstate, wjobs, worker,
                           wait_ctx, resample_evt, kill_evt>>
       ELSE /\ IF read_from_prefix(commands, SIZE_OF_CrossDomainHeader)
                  /\ commands[1] = CROSS_DOMAIN_CMD_INIT
                  /\ read_init(commands).ok
               THEN initialize_do(read_init(commands).cmd.query_ring_id,
                                  read_init(commands).cmd.channel_ring_id,
                                  read_init(commands).cmd.channel_type)
               ELSE UNCHANGED <<paths, state, wstate, wjobs, worker, wait_ctx,
                                resample_evt, kill_evt>>
            /\ IF iteration_result(commands) = "continue"
               THEN /\ commands' = rest(commands, commands[2])
                    /\ dpc' = [dpc EXCEPT !.arg = dpc.arg + 1]
                    /\ UNCHANGED result
               ELSE /\ commands' = <<>>
                    /\ dpc' = [pc |-> "idle", arg |-> 0]
                    /\ result' = iteration_result(commands)
    /\ UNCHANGED <<context_resources, items, futexes, channel, pipes, ncmd,
                   nextFence, signaled, mapped, assigned, enqueued, requeued, job,
                   call, rings, hung_up_ids, reads, blob, locks>>

\* -------------------------------------------------- get_image_requirements
\* An item that enters the table as soon as the allocator has answered.
reqs_item_added_before_state_check(reqsOk) == reqsOk

\* add_item runs inside `if let Some(state) = &self.state`.
reqs_item_added(reqsOk) == reqsOk /\ state.obj # "none"

\* reqsOk: the allocator answers the query.
get_image_requirements(reqsOk) ==
    /\ Call
    /\ call' = Called("get_image_requirements", 0, FALSE)
    /\ items' = IF reqs_item_added(reqsOk)
                THEN add_item(items, "ImageRequirements") ELSE items
    /\ assigned' = IF reqs_item_added(reqsOk)
                   THEN Append(assigned,
                        <<"ImageRequirements", add_item_id(items, "ImageRequirements")>>)
                   ELSE assigned
    /\ IF ~reqsOk
       THEN /\ result' = "GrallocError"
            /\ UNCHANGED rings
       ELSE IF state.obj = "none"
       THEN /\ result' = "InvalidCrossDomainState"
            /\ UNCHANGED rings
       ELSE /\ result' = write_to_ring(state.query_ring_id,
                                       "GET_IMAGE_REQUIREMENTS", FALSE, FALSE).err
            /\ rings' = write_to_ring(state.query_ring_id,
                                      "GET_IMAGE_REQUIREMENTS", FALSE, FALSE).rings
    /\ UNCHANGED <<context_resources, paths, state, wstate, wjobs, worker,
                   wait_ctx, resample_evt, kill_evt, futexes, channel, pipes, dpc,
                   commands, nextFence, signaled, mapped, enqueued, requeued, job,
                   hung_up_ids, reads, blob, locks>>

\* ---------------------------------------------------- context_create_fence
context_create_fence(ring_idx) ==
    /\ Call
    /\ call' = Called("context_create_fence", 0, FALSE)
    /\ nextFence' = nextFence + 1
    /\ IF ring_idx = CROSS_DOMAIN_QUERY_RING
       THEN /\ signaled' = fence_handler_call(nextFence)
            /\ result' = "ok"
            /\ UNCHANGED <<wjobs, enqueued>>
       ELSE IF ring_idx = CROSS_DOMAIN_CHANNEL_RING
       THEN /\ wjobs' = add_job_w(state.obj, Job("HandleFence", nextFence))
            /\ enqueued' = IF state.obj = "none" THEN enqueued
                           ELSE Append(enqueued, nextFence)
            /\ result' = "ok"
            /\ UNCHANGED signaled
       ELSE /\ result' = "unexpected ring type"
            /\ UNCHANGED <<wjobs, signaled, enqueued>>
    /\ UNCHANGED <<context_resources, items, paths, state, wstate, worker,
                   wait_ctx, resample_evt, kill_evt, futexes, channel, pipes, dpc,
                   commands, mapped, assigned, requeued, job, rings, hung_up_ids,
                   reads, blob, locks>>

\* ------------------------------------------------------------------ worker
\* Whether the descriptor behind a waitset entry is ready.
Ready(e) ==
    CASE e.k = "channel" -> channel # <<>>
      [] e.k = "resample" -> resample_evt = "signaled"
      [] e.k = "kill" -> kill_evt = "signaled"
      [] e.k = "futex" -> e.id \in DOMAIN futexes /\ futexes[e.id].evt = 1
      [] e.k = "pipe" -> e.id \in DOMAIN pipes /\ (pipes[e.id].data \/ pipes[e.id].closed)

\* The event the waitset reports for a ready entry.
EventOf(e) ==
    [cid |-> e.cid, k |-> e.k, id |-> e.id,
     readable |-> IF e.k = "pipe" THEN pipes[e.id].data ELSE TRUE,
     hung_up |-> IF e.k = "pipe" THEN pipes[e.id].closed ELSE FALSE]

\* The match arm of handle_fence that serves connection id cid.
Arm(cid) ==
    IF cid = CROSS_DOMAIN_CONTEXT_CHANNEL_ID THEN "CHANNEL"
    ELSE IF cid = CROSS_DOMAIN_RESAMPLE_ID THEN "RESAMPLE"
    ELSE IF cid = CROSS_DOMAIN_KILL_ID THEN "KILL"
    ELSE IF cid >= CROSS_DOMAIN_FUTEX_START /\ cid < CROSS_DOMAIN_PIPE_READ_START
    THEN "FUTEX"
    ELSE "PIPE"

\* run, before its loop: RESAMPLE and KILL join the waitset.
worker_start ==
    /\ worker.pc = "start"
    /\ wait_ctx' = wait_ctx \cup {Src(CROSS_DOMAIN_RESAMPLE_ID, "resample", 0),
                                  Src(CROSS_DOMAIN_KILL_ID, "kill", 0)}
    /\ worker' = [worker EXCEPT !.pc = "wait_for_job"]
    /\ UNCHANGED <<context_resources, items, paths, state, wstate, wjobs,
                   resample_evt, kill_evt, futexes, channel, pipes, dpc, commands,
                   ncmd, result, nextFence, signaled, mapped, assigned, enqueued,
                   requeued, job, call, rings, hung_up_ids, reads, blob, locks>>

\* run: wait_for_job returned HandleFence(fence); handle_fence starts.
run_HandleFence ==
    /\ worker.pc = "wait_for_job"
    /\ wjobs # <<>>
    /\ Head(wjobs).type = "HandleFence"
    /\ wjobs' = Tail(wjobs)
    /\ worker' = [pc |-> "wait_ctx", fence |-> Head(wjobs).arg, event |-> NoEvent]
    /\ job' = [NoJob EXCEPT !.fence = Head(wjobs).arg,
                            !.unsignaled = job.unsignaled,
                            !.destroyed = {id \in DOMAIN futexes : futexes[id].joined}]
    /\ UNCHANGED <<context_resources, items, paths, state, wstate, wait_ctx,
                   resample_evt, kill_evt, futexes, channel, pipes, dpc, commands,
                   ncmd, result, nextFence, signaled, mapped, assigned, enqueued,
                   requeued, call, rings, hung_up_ids, reads, blob, locks>>

\* run: AddReadPipe(read_pipe_id)
run_AddReadPipe ==
    /\ worker.pc = "wait_for_job"
    /\ wjobs # <<>>
    /\ Head(wjobs).type = "AddReadPipe"
    /\ wjobs' = Tail(wjobs)
    /\ LET id == Head(wjobs).arg IN
       IF id \in DOMAIN items.table /\ items.table[id] = "WaylandReadPipe"
       THEN /\ wait_ctx' = wait_ctx \cup {Src(id, "pipe", id)}
            /\ UNCHANGED worker
       ELSE /\ worker' = [worker EXCEPT !.pc = "halted"]
            /\ UNCHANGED wait_ctx
    /\ job' = [NoJob EXCEPT !.unsignaled = job.unsignaled]
    /\ UNCHANGED <<context_resources, items, paths, state, wstate, resample_evt,
                   kill_evt, futexes, channel, pipes, dpc, commands, ncmd, result,
                   nextFence, signaled, mapped, assigned, enqueued, requeued, call,
                   rings, hung_up_ids, reads, blob, locks>>

\* run: AddFutex(id, recv)
run_AddFutex ==
    /\ worker.pc = "wait_for_job"
    /\ wjobs # <<>>
    /\ Head(wjobs).type = "AddFutex"
    /\ wjobs' = Tail(wjobs)
    /\ wait_ctx' = wait_ctx \cup {Src(Head(wjobs).arg, "futex", Head(wjobs).arg)}
    /\ job' = [NoJob EXCEPT !.unsignaled = job.unsignaled]
    /\ UNCHANGED <<context_resources, items, paths, state, wstate, worker,
                   resample_evt, kill_evt, futexes, channel, pipes, dpc, commands,
                   ncmd, result, nextFence, signaled, mapped, assigned, enqueued,
                   requeued, call, rings, hung_up_ids, reads, blob, locks>>

\* run: Finish
run_Finish ==
    /\ worker.pc = "wait_for_job"
    /\ wjobs # <<>>
    /\ Head(wjobs).type = "Finish"
    /\ wjobs' = Tail(wjobs)
    /\ worker' = [worker EXCEPT !.pc = "returned"]
    /\ job' = [NoJob EXCEPT !.unsignaled = job.unsignaled]
    /\ UNCHANGED <<context_resources, items, paths, state, wstate, wait_ctx,
                   resample_evt, kill_evt, futexes, channel, pipes, dpc, commands,
                   ncmd, result, nextFence, signaled, mapped, assigned, enqueued,
                   requeued, call, rings, hung_up_ids, reads, blob, locks>>

\* handle_fence: wait_ctx.wait returns; events.first() is any ready entry.
handle_fence_wait ==
    /\ worker.pc = "wait_ctx"
    /\ \E e \in wait_ctx :
          /\ Ready(e)
          /\ worker' = [worker EXCEPT !.pc = "service", !.event = EventOf(e)]
    /\ job' = [job EXCEPT !.services = job.services + 1]
    /\ UNCHANGED <<context_resources, items, paths, state, wstate, wjobs, wait_ctx,
                   resample_evt, kill_evt, futexes, channel, pipes, dpc, commands,
                   ncmd, result, nextFence, signaled, mapped, assigned, enqueued,
                   requeued, call, rings, hung_up_ids, reads, blob, locks>>

Min(a, b) == IF a <= b THEN a ELSE b

\* The CHANNEL arm's loop over the received descriptors: each memory
\* descriptor becomes a Blob item, each write-only one a WaylandWritePipe
\* item, anything else ends the loop with an error.
RECURSIVE receive_files(_, _, _)
receive_files(files, its, ids) ==
    IF files = <<>> THEN [err |-> "ok", items |-> its, ids |-> ids]
    ELSE IF Head(files) = "Memory"
    THEN receive_files(Tail(files), add_item(its, "Blob"),
                       Append(ids, <<"Blob", add_item_id(its, "Blob")>>))
    ELSE IF Head(files) = "WritePipe"
    THEN receive_files(Tail(files), add_item(its, "WaylandWritePipe"),
                       Append(ids, <<"WaylandWritePipe",
                                     add_item_id(its, "WaylandWritePipe")>>))
    ELSE [err |-> "InvalidCrossDomainItemType", items |-> its, ids |-> ids]

\* The worker's return from handle_fence with an error: run returns too.
Halt == [pc |-> "halted", fence |-> 0, event |-> NoEvent]

\* handle_fence that goes back to the waitset with the fence it holds.
Served_and_waits_again == [pc |-> "wait_ctx", fence |-> worker.fence, event |-> NoEvent]

\* The worker's return from handle_fence with Ok.
Served == [pc |-> "wait_for_job", fence |-> 0, event |-> NoEvent]

\* handle_fence when wait_ctx.wait returns an empty list: events.first() is
\* None, the match is skipped and handle_fence returns Ok with the fence it
\* was given.
handle_fence_no_event ==
    /\ worker.pc = "wait_ctx"
    /\ worker' = Served
    /\ job' = [job EXCEPT !.services = job.services + 1, !.event = "NONE"]
    /\ UNCHANGED <<context_resources, items, paths, state, wstate, wjobs, wait_ctx,
                   resample_evt, kill_evt, futexes, channel, pipes, dpc, commands,
                   ncmd, result, nextFence, signaled, mapped, assigned, enqueued,
                   requeued, call, rings, hung_up_ids, reads, blob, locks>>

\* The RECEIVE write of the CHANNEL arm for the message at the head of the
\* socket.
write_receive ==
    write_to_ring(wstate.channel_ring_id, "RECEIVE", TRUE, Head(channel).big)

\* What the CHANNEL arm returns for the message at the head of the socket.
handle_fence_channel_result ==
    LET r == receive_files(SubSeq(Head(channel).files, 1,
                 Min(Len(Head(channel).files), CROSS_DOMAIN_MAX_IDENTIFIERS)),
                 items, <<>>)
    IN IF r.err # "ok" THEN r.err ELSE write_receive.err

\* The CrossDomainSendReceive the CHANNEL arm builds for the message at the
\* head of the socket: num_identifiers is files.len(); the identifier array
\* has CROSS_DOMAIN_MAX_IDENTIFIERS slots, zero by default, and the loop
\* fills one slot per descriptor it installs.
cmd_receive ==
    LET files == Head(channel).files
        r == receive_files(SubSeq(files, 1,
                 Min(Len(files), CROSS_DOMAIN_MAX_IDENTIFIERS)), items, <<>>)
    IN [num_identifiers |-> Len(files),
        identifiers |-> [k \in 1..CROSS_DOMAIN_MAX_IDENTIFIERS |->
                            IF k <= Len(r.ids) THEN r.ids[k][2] ELSE 0],
        installed |-> Len(r.ids)]

\* handle_fence, CROSS_DOMAIN_CONTEXT_CHANNEL_ID arm
handle_fence_channel ==
    /\ worker.pc = "service"
    /\ Arm(worker.event.cid) = "CHANNEL"
    /\ worker.event.k = "channel"
    /\ LET msg == Head(channel)
           r == receive_files(SubSeq(msg.files, 1,
                        Min(Len(msg.files), CROSS_DOMAIN_MAX_IDENTIFIERS)),
                    items, <<>>)
           chk == write_to_ring_check(wstate.channel_ring_id)
       IN /\ channel' = Tail(channel)
          /\ items' = r.items
          /\ assigned' = assigned \o r.ids
          /\ rings' = IF r.err # "ok" THEN rings ELSE write_receive.rings
          /\ IF r.err # "ok" \/ chk # "ok"
             THEN /\ worker' = Halt
                  /\ job' = [job EXCEPT !.event = "CHANNEL"]
                  /\ UNCHANGED signaled
             ELSE IF handle_fence_channel_result # "ok"
             THEN /\ worker' = Halt
                  /\ job' = [job EXCEPT !.event = "CHANNEL",
                                        !.writes = job.writes + 1,
                                        !.unsignaled = job.unsignaled + 1]
                  /\ UNCHANGED signaled
             ELSE /\ worker' = Served
                  /\ signaled' = fence_handler_call(worker.fence)
                  /\ job' = [job EXCEPT !.event = "CHANNEL",
                                        !.writes = job.writes + 1,
                                        !.signals = job.signals + 1,
                                        !.unsignaled = 0]
    /\ UNCHANGED <<context_resources, paths, state, wstate, wjobs, wait_ctx,
                   resample_evt, kill_evt, futexes, pipes, dpc, commands, ncmd,
                   result, nextFence, mapped, enqueued, requeued, call,
                   hung_up_ids, reads, blob, locks>>

\* A RESAMPLE arm that signals the fence instead of queueing it again.
handle_fence_resample_signals ==
    /\ worker.pc = "service"
    /\ Arm(worker.event.cid) = "RESAMPLE"
    /\ resample_evt = "signaled"
    /\ resample_evt' = "clear"
    /\ signaled' = fence_handler_call(worker.fence)
    /\ worker' = Served
    /\ job' = [job EXCEPT !.event = "RESAMPLE", !.signals = job.signals + 1,
                          !.unsignaled = 0]
    /\ UNCHANGED <<context_resources, items, paths, state, wstate, wjobs, wait_ctx,
                   kill_evt, futexes, channel, pipes, dpc, commands, ncmd, result,
                   nextFence, mapped, assigned, enqueued, requeued, call, rings,
                   hung_up_ids, reads, blob, locks>>

\* handle_fence, CROSS_DOMAIN_RESAMPLE_ID arm
handle_fence_resample ==
    /\ worker.pc = "service"
    /\ Arm(worker.event.cid) = "RESAMPLE"
    /\ resample_evt = "signaled"
    /\ resample_evt' = "clear"
    /\ wjobs' = add_job(wjobs, Job("HandleFence", worker.fence))
    /\ requeued' = requeued \cup {worker.fence}
    /\ worker' = Served
    /\ job' = [job EXCEPT !.event = "RESAMPLE"]
    /\ UNCHANGED <<context_resources, items, paths, state, wstate, wait_ctx,
                   kill_evt, futexes, channel, pipes, dpc, commands, ncmd, result,
                   nextFence, signaled, mapped, assigned, enqueued, call, rings,
                   hung_up_ids, reads, blob, locks>>

\* handle_fence, CROSS_DOMAIN_KILL_ID arm
handle_fence_kill ==
    /\ worker.pc = "service"
    /\ Arm(worker.event.cid) = "KILL"
    /\ signaled' = fence_handler_call(worker.fence)
    /\ worker' = Served
    /\ job' = [job EXCEPT !.event = "KILL", !.signals = job.signals + 1,
                          !.unsignaled = 0]
    /\ UNCHANGED <<context_resources, items, paths, state, wstate, wjobs, wait_ctx,
                   resample_evt, kill_evt, futexes, channel, pipes, dpc, commands,
                   ncmd, result, nextFence, mapped, assigned, enqueued, requeued,
                   call, rings, hung_up_ids, reads, blob, locks>>

\* The futex table lock is held by the dispatcher while shutdown joins the
\* watcher inside futex_destroy.
FutexLockFree == dpc.pc # "futex_destroy_join"

\* A delete that leaves the waitset as it is.
wait_ctx_delete_nothing(k, id) == wait_ctx

\* The front-most waitset entries of one descriptor are removed by delete.
wait_ctx_delete(k, id) == {e \in wait_ctx : ~(e.k = k /\ e.id = id)}

\* A futex arm that leaves the entry in the table.
futexes_keep(f, futex_id) == f

\* futexes.remove(&futex_id) at the end of the futex arm
futexes_remove(f, futex_id) == MapRemove(f, futex_id)

\* handle_fence, futex arm.  An entry that is shut down leaves the waitset
\* and the table (Drop for CrossDomainFutex unmaps) and the fence is queued
\* again; for a live entry the watcher's event is drained, FUTEX_SIGNAL is
\* written and the fence is signaled; with no entry under the id the fence
\* is queued again.
handle_fence_futex ==
    /\ worker.pc = "service"
    /\ Arm(worker.event.cid) = "FUTEX"
    /\ FutexLockFree
    /\ LET futex_id == worker.event.cid IN
       IF futex_id \notin DOMAIN futexes
       THEN /\ wjobs' = add_job(wjobs, Job("HandleFence", worker.fence))
            /\ requeued' = requeued \cup {worker.fence}
            /\ worker' = Served
            /\ job' = [job EXCEPT !.event = "FUTEX_ABSENT"]
            /\ UNCHANGED <<wait_ctx, futexes, mapped, signaled, rings>>
       ELSE IF futexes[futex_id].shutdown
       THEN /\ wait_ctx' = wait_ctx_delete("futex", futex_id)
            /\ wjobs' = add_job(wjobs, Job("HandleFence", worker.fence))
            /\ requeued' = requeued \cup {worker.fence}
            /\ futexes' = futexes_remove(futexes, futex_id)
            /\ mapped' = mapped \ {futex_id}
            /\ worker' = Served
            /\ job' = [job EXCEPT !.event = "FUTEX_SHUTDOWN"]
            /\ UNCHANGED <<signaled, rings>>
       ELSE /\ futexes[futex_id].evt = 1
            /\ futexes' = [futexes EXCEPT ![futex_id].evt = 0]
            /\ UNCHANGED <<wait_ctx, wjobs, requeued, mapped>>
            /\ rings' = write_to_ring(wstate.channel_ring_id, "FUTEX_SIGNAL",
                                      FALSE, FALSE).rings
            /\ IF write_to_ring_check(wstate.channel_ring_id) # "ok"
               THEN /\ worker' = Halt
                    /\ job' = [job EXCEPT !.event = "FUTEX"]
                    /\ UNCHANGED signaled
               ELSE /\ worker' = Served
                    /\ signaled' = fence_handler_call(worker.fence)
                    /\ job' = [job EXCEPT !.event = "FUTEX",
                                          !.writes = job.writes + 1,
                                          !.signals = job.signals + 1,
                                          !.unsignaled = 0]
    /\ UNCHANGED <<context_resources, items, paths, state, wstate, resample_evt,
                   kill_evt, channel, pipes, dpc, commands, ncmd, result,
                   nextFence, assigned, enqueued, call, hung_up_ids, reads, blob,
                   locks>>

\* What the read of WriteFromPipe returns: a byte when the event is readable
\* and the pipe holds data, nothing otherwise.
bytes_read(pipe_id) ==
    IF worker.event.readable /\ pipes[pipe_id].data THEN 1 ELSE 0

\* The READ record write_to_ring composes: hang_up is set whenever no byte
\* was read.  `removed` notes whether the same service took the pipe out of
\* the waitset and the item table.
cmd_read(pipe_id, removed) ==
    [identifier |-> pipe_id,
     hang_up |-> IF bytes_read(pipe_id) = 0 THEN 1 ELSE 0,
     removed |-> removed]

\* write_to_ring, RingWrite::WriteFromPipe on a ring that passed the
\* checks: the bytes read go behind the header, then the header is written.
write_from_pipe(ring_id, pipe_id) ==
    [rings EXCEPT ![ring_id] =
        [hdr |-> "READ",
         payload |-> IF bytes_read(pipe_id) = 0 THEN @.payload ELSE "READ"]]

\* handle_fence, last arm: the connection id is taken for a read pipe id.
\* The read of a readable event blocks while the pipe is empty and its
\* write end is open.
handle_fence_pipe ==
    /\ worker.pc = "service"
    /\ Arm(worker.event.cid) = "PIPE"
    /\ LET pipe_id == worker.event.cid
           found == pipe_id \in DOMAIN items.table
                    /\ items.table[pipe_id] = "WaylandReadPipe"
           chk == write_to_ring_check(wstate.channel_ring_id)
       IN IF ~found \/ chk # "ok"
          THEN /\ worker' = Halt
               /\ job' = [job EXCEPT !.event = "PIPE"]
               /\ UNCHANGED <<items, pipes, wait_ctx, signaled, reads, rings>>
          ELSE /\ ~(worker.event.readable /\ ~pipes[pipe_id].data
                                          /\ ~pipes[pipe_id].closed)
               /\ worker' = Served
               /\ rings' = write_from_pipe(wstate.channel_ring_id, pipe_id)
               /\ signaled' = fence_handler_call(worker.fence)
               /\ job' = [job EXCEPT !.event = "PIPE", !.writes = job.writes + 1,
                                     !.signals = job.signals + 1, !.unsignaled = 0]
               /\ IF worker.event.hung_up /\ bytes_read(pipe_id) = 0
                  THEN /\ wait_ctx' = wait_ctx_delete("pipe", pipe_id)
                       /\ items' = [items EXCEPT !.table = MapRemove(items.table, pipe_id)]
                       /\ pipes' = MapRemove(pipes, pipe_id)
                       /\ reads' = Append(reads, cmd_read(pipe_id, TRUE))
                  ELSE /\ pipes' = IF bytes_read(pipe_id) = 1
                                   THEN [pipes EXCEPT ![pipe_id].data = FALSE]
                                   ELSE pipes
                       /\ reads' = Append(reads, cmd_read(pipe_id, FALSE))
                       /\ UNCHANGED <<items, wait_ctx>>
    /\ UNCHANGED <<context_resources, paths, state, wstate, wjobs, resample_evt,
                   kill_evt, futexes, channel, dpc, commands, ncmd, result,
                   nextFence, mapped, assigned, enqueued, requeued, call,
                   hung_up_ids, blob, locks>>

\* -------------------------------------------------------------------- send
Ident(id, type) == [id |-> id, type |-> type]

\* (identifier, type) lists of the SEND commands the guest submits.
SendIdentifiers ==
    {<<>>,
     <<Ident(CROSS_DOMAIN_PIPE_READ_START + 1, "READ_PIPE")>>,
     <<Ident(CROSS_DOMAIN_PIPE_READ_START + 2, "READ_PIPE")>>,
     <<Ident(7, "VIRTGPU_BLOB")>>,
     <<Ident(CROSS_DOMAIN_PIPE_READ_START + 1, "READ_PIPE"),
       Ident(CROSS_DOMAIN_PIPE_READ_START + 2, "READ_PIPE")>>}

\* A check of the guessed identifier that lets every guess pass.
read_pipe_id_any(read_pipe_id, identifier) == TRUE

\* send: the guest's guess must be the identifier add_item returned.
read_pipe_id_matches(read_pipe_id, identifier) == read_pipe_id = identifier

\* send's loop over the identifiers: [err, items, rp] where rp is
\* read_pipe_id_opt (0 for None) and items the table as the loop left it.
RECURSIVE send_identifiers(_, _, _)
send_identifiers(ids, its, rp) ==
    IF ids = <<>> THEN [err |-> "ok", items |-> its, rp |-> rp]
    ELSE IF Head(ids).type = "VIRTGPU_BLOB"
    THEN IF Head(ids).id \notin ResIds \/ context_resources[Head(ids).id] = "absent"
         THEN [err |-> "InvalidResourceId", items |-> its, rp |-> rp]
         ELSE IF context_resources[Head(ids).id] # "handle"
         THEN [err |-> "InvalidMesaHandle", items |-> its, rp |-> rp]
         ELSE send_identifiers(Tail(ids), its, rp)
    ELSE IF Head(ids).type = "READ_PIPE"
    THEN IF rp # 0
         THEN [err |-> "expected just one pipe pair", items |-> its, rp |-> rp]
         ELSE IF ~read_pipe_id_matches(add_item_id(its, "WaylandReadPipe"),
                                       Head(ids).id)
         THEN [err |-> "InvalidCrossDomainItemId",
               items |-> add_item(its, "WaylandReadPipe"),
               rp |-> add_item_id(its, "WaylandReadPipe")]
         ELSE send_identifiers(Tail(ids), add_item(its, "WaylandReadPipe"),
                               add_item_id(its, "WaylandReadPipe"))
    ELSE [err |-> "InvalidCrossDomainItemType", items |-> its, rp |-> rp]

\* What send returns after its loop succeeded; sendOk is whether the stream
\* socket accepts the message.
send_tail_result(sendOk) ==
    IF state.obj = "none" \/ resample_evt = "none" THEN "InvalidCrossDomainState"
    ELSE IF ~state.connection THEN "InvalidCrossDomainChannel"
    ELSE IF ~sendOk THEN "IoError"
    ELSE "ok"

\* A check of num_identifiers that lets every count pass.
too_many_identifiers_never(num_identifiers) == FALSE

\* send: num_identifiers > CROSS_DOMAIN_MAX_IDENTIFIERS
too_many_identifiers(num_identifiers) ==
    num_identifiers > CROSS_DOMAIN_MAX_IDENTIFIERS

\* A SEND command: its count and its identifier arrays.
CrossDomainSendReceive(n, ids) == [num_identifiers |-> n, ids |-> ids]

\* The SEND commands the guest submits: every list of SendIdentifiers with
\* its length as the count, and one command whose count exceeds the
\* capacity of its arrays.
SendCmds ==
    {CrossDomainSendReceive(Len(l), l) : l \in SendIdentifiers}
    \cup {CrossDomainSendReceive(CROSS_DOMAIN_MAX_IDENTIFIERS + 1,
              [i \in 1..CROSS_DOMAIN_MAX_IDENTIFIERS |-> Ident(7, "VIRTGPU_BLOB")])}

send(cmd_send, sendOk) ==
    /\ Call
    /\ LET ids == SubSeq(cmd_send.ids, 1,
                         Min(cmd_send.num_identifiers, Len(cmd_send.ids)))
           r == IF too_many_identifiers(cmd_send.num_identifiers)
                THEN [err |-> "max cross domain identifiers exceeded",
                      items |-> items, rp |-> 0]
                ELSE send_identifiers(ids, items, 0)
           res == IF r.err # "ok" THEN r.err ELSE send_tail_result(sendOk)
       IN /\ result' = res
          /\ call' = Called("send", 0, res = "ok")
          /\ items' = r.items
          /\ assigned' = IF r.items # items
                         THEN Append(assigned, <<"WaylandReadPipe", r.rp>>)
                         ELSE assigned
          \* the write end stays open only in the server's hands
          /\ pipes' = IF r.items # items
                      THEN MapInsert(pipes, r.rp,
                               [data |-> FALSE, closed |-> res # "ok", send |-> res])
                      ELSE pipes
          /\ IF res = "ok" /\ r.rp # 0
             THEN /\ wjobs' = add_job_w(state.obj, Job("AddReadPipe", r.rp))
                  /\ resample_evt' = "signaled"
             ELSE UNCHANGED <<wjobs, resample_evt>>
    /\ UNCHANGED <<context_resources, paths, state, wstate, worker, wait_ctx,
                   kill_evt, futexes, channel, dpc, commands, nextFence, signaled,
                   mapped, enqueued, requeued, job, rings, hung_up_ids, reads,
                   blob, locks>>

\* ------------------------------------------------------------------- write
\* Dropping an item closes its descriptor; a closed read pipe leaves the
\* waitset with it.
pipes_without(id) == IF id \in DOMAIN pipes THEN MapRemove(pipes, id) ELSE pipes

\* A WRITE that puts the write pipe back whenever the write succeeded.
write_reinserts_unless_error(res, hang_up) == res = "ok"

\* write: the item comes back only after a successful write with
\* hang_up == 0.
write_reinserts(res, hang_up) == res = "ok" /\ hang_up = 0

write(id, hang_up, len, writeOk) ==
    /\ Call
    /\ call' = Called("write", id, FALSE)
    /\ IF id \notin DOMAIN items.table
       THEN /\ result' = "InvalidCrossDomainItemId"
            /\ UNCHANGED <<items, pipes, wait_ctx, hung_up_ids>>
       ELSE IF items.table[id] = "WaylandWritePipe"
       THEN /\ result' = IF len # 0 /\ ~writeOk THEN "IoError" ELSE "ok"
            /\ items' = IF write_reinserts(result', hang_up) THEN items
                        ELSE [items EXCEPT !.table = MapRemove(items.table, id)]
            /\ hung_up_ids' = IF result' = "ok" /\ hang_up = 1
                              THEN hung_up_ids \cup {id} ELSE hung_up_ids
            /\ UNCHANGED <<pipes, wait_ctx>>
       ELSE /\ result' = "InvalidCrossDomainItemType"
            /\ items' = [items EXCEPT !.table = MapRemove(items.table, id)]
            /\ pipes' = pipes_without(id)
            /\ wait_ctx' = wait_ctx_delete("pipe", id)
            /\ UNCHANGED hung_up_ids
    /\ UNCHANGED <<context_resources, paths, state, wstate, wjobs, worker,
                   resample_evt, kill_evt, futexes, channel, dpc, commands,
                   nextFence, signaled, mapped, assigned, enqueued, requeued, job,
                   rings, reads, blob, locks>>

\* ----------------------------------------------------- context_create_blob
\* A table in which every kind of item stays after a blob creation.
kept_in_table_always(item) == TRUE

\* "Items that are kept in the table after usage."
kept_in_table(item) == item = "ImageRequirements"

\* ok: the requested size matches the requirements and the allocation works.
context_create_blob(blob_id, ok) ==
    /\ Call
    /\ call' = Called("context_create_blob", blob_id, FALSE)
    /\ IF blob_id \notin DOMAIN items.table
       THEN /\ result' = "InvalidCrossDomainItemId"
            /\ UNCHANGED <<items, pipes, wait_ctx>>
       ELSE IF kept_in_table(items.table[blob_id])
       THEN /\ result' = IF ok THEN "ok" ELSE "MesaError"
            /\ UNCHANGED <<items, pipes, wait_ctx>>
       ELSE /\ result' = IF items.table[blob_id] = "Blob" THEN "ok"
                         ELSE "InvalidCrossDomainItemType"
            /\ items' = [items EXCEPT !.table = MapRemove(items.table, blob_id)]
            /\ pipes' = pipes_without(blob_id)
            /\ wait_ctx' = wait_ctx_delete("pipe", blob_id)
    /\ UNCHANGED <<context_resources, paths, state, wstate, wjobs, worker,
                   resample_evt, kill_evt, futexes, channel, dpc, commands,
                   nextFence, signaled, mapped, assigned, enqueued, requeued, job,
                   rings, hung_up_ids, reads, blob, locks>>

\* ------------------------------------------------ CrossDomain::create_blob
\* The kinds of blob memory and the flag bits of a request; blob_flags is
\* the set of the bits that are set.
BlobMems == {"GUEST", "HOST3D", "HOST3D_GUEST"}
BlobFlagBits == {"USE_MAPPABLE", "USE_SHAREABLE", "USE_CROSS_DEVICE"}
RUTABAGA_BLOB_MEM_GUEST == "GUEST"
RUTABAGA_BLOB_FLAG_USE_MAPPABLE == {"USE_MAPPABLE"}
BlobSizes == {0, 1}

ResourceCreateBlob(blob_mem, blob_flags, size) ==
    [blob_mem |-> blob_mem, blob_flags |-> blob_flags, size |-> size]

\* The condition under which create_blob returns its error.
create_blob_rejects(blob_mem, blob_flags) ==
    /\ blob_mem # RUTABAGA_BLOB_MEM_GUEST
    /\ blob_flags # RUTABAGA_BLOB_FLAG_USE_MAPPABLE

\* What create_blob returns: the error, or the resource that wraps the
\* caller's iovecs.
create_blob_returns(resource_id, resource_create_blob, iovec_opt) ==
    IF create_blob_rejects(resource_create_blob.blob_mem,
                           resource_create_blob.blob_flags)
    THEN [err |-> "expected only guest memory blobs"]
    ELSE [err |-> "ok",
          resource_id |-> resource_id,
          handle |-> "None",
          blob_mem |-> resource_create_blob.blob_mem,
          blob_flags |-> resource_create_blob.blob_flags,
          backing_iovecs |-> iovec_opt,
          size |-> resource_create_blob.size]

\* create_blob of the component: it touches no context.
create_blob(resource_id, resource_create_blob, iovec_opt) ==
    /\ blob' = [called |-> TRUE, resource_id |-> resource_id,
                request |-> resource_create_blob, iovec_opt |-> iovec_opt,
                returned |-> create_blob_returns(resource_id, resource_create_blob,
                                                 iovec_opt)]
    /\ UNCHANGED <<context_resources, items, paths, state, wstate, wjobs, worker,
                   wait_ctx, resample_evt, kill_evt, futexes, channel, pipes, dpc,
                   commands, ncmd, result, nextFence, signaled, mapped, assigned,
                   enqueued, requeued, job, call, rings, hung_up_ids, reads, locks>>

\* ------------------------------------------------------------------- locks
Lock(m) == [op |-> "lock", m |-> m]
Unlock(m) == [op |-> "unlock", m |-> m]

\* A guard on m that lives while the events of inner are made.
Guarded(m, inner) == <<Lock(m)>> \o inner \o <<Unlock(m)>>

\* The lock events of the functions every handler goes through.
add_item_locks == Guarded("item_state", <<>>)
add_job_locks == Guarded("jobs", <<>>)
wait_for_job_locks == Guarded("jobs", <<>>)
write_to_ring_locks == Guarded("context_resources", <<>>)

\* The lock events of each handler of the dispatcher, in program order.
DispatcherLocks ==
    [attach |-> Guarded("context_resources", <<>>),
     detach |-> Guarded("context_resources", <<>>),
     initialize |-> Guarded("context_resources", <<>>)
                        \o Guarded("context_resources", <<>>),
     get_image_requirements |-> add_item_locks \o write_to_ring_locks,
     send |-> Guarded("context_resources", <<>>) \o add_item_locks \o add_job_locks,
     futex_new |-> Guarded("futexes", add_job_locks),
     futex_signal |-> Guarded("futexes", <<>>),
     futex_destroy |-> Guarded("futexes", <<>>),
     write |-> Guarded("item_state", <<>>),
     context_create_blob |-> Guarded("item_state", <<>>),
     context_create_fence |-> add_job_locks,
     drop |-> add_job_locks]

\* The lock events of each step of the worker: wait_for_job, the AddReadPipe
\* job and the arms of handle_fence.
WorkerLocks ==
    [wait_for_job |-> wait_for_job_locks,
     run_AddReadPipe |-> Guarded("item_state", <<>>),
     handle_fence_channel |-> add_item_locks \o write_to_ring_locks,
     handle_fence_resample |-> add_job_locks,
     handle_fence_futex_shutdown |-> Guarded("futexes", add_job_locks),
     handle_fence_futex |-> Guarded("futexes", write_to_ring_locks),
     handle_fence_pipe |-> Guarded("item_state", write_to_ring_locks)]

LockPaths(t) == IF t = "dispatcher" THEN DispatcherLocks ELSE WorkerLocks

\* Thread t enters handler h.
lock_enter(t, h) ==
    /\ locks[t].path = <<>>
    /\ locks' = [locks EXCEPT ![t].path = LockPaths(t)[h]]
    /\ UNCHANGED <<context_resources, items, paths, state, wstate, wjobs, worker,
                   wait_ctx, resample_evt, kill_evt, futexes, channel, pipes, dpc,
                   commands, ncmd, result, nextFence, signaled, mapped, assigned,
                   enqueued, requeued, job, call, rings, hung_up_ids, reads, blob>>

\* Thread t takes the Mutex its handler locks next; it blocks while another
\* thread holds it.
lock_acquire(t) ==
    /\ locks[t].path # <<>>
    /\ Head(locks[t].path).op = "lock"
    /\ \A u \in Threads \ {t} : Head(locks[t].path).m \notin Range(locks[u].held)
    /\ locks' = [locks EXCEPT ![t].held = Append(@, Head(locks[t].path).m),
                              ![t].path = Tail(@)]
    /\ UNCHANGED <<context_resources, items, paths, state, wstate, wjobs, worker,
                   wait_ctx, resample_evt, kill_evt, futexes, channel, pipes, dpc,
                   commands, ncmd, result, nextFence, signaled, mapped, assigned,
                   enqueued, requeued, job, call, rings, hung_up_ids, reads, blob>>

\* The guard thread t took last goes out of scope.
lock_release(t) ==
    /\ locks[t].path # <<>>
    /\ Head(locks[t].path).op = "unlock"
    /\ locks' = [locks EXCEPT ![t].held = SubSeq(@, 1, Len(@) - 1),
                              ![t].path = Tail(@)]
    /\ UNCHANGED <<context_resources, items, paths, state, wstate, wjobs, worker,
                   wait_ctx, resample_evt, kill_evt, futexes, channel, pipes, dpc,
                   commands, ncmd, result, nextFence, signaled, mapped, assigned,
                   enqueued, requeued, job, call, rings, hung_up_ids, reads, blob>>

\* ------------------------------------------------------------------- futex
\* !v on the shared word, whose width is that of WordVals
Not(v) == 3 - v

\* CrossDomainFutex as futex_new inserts it, with its watcher thread about
\* to run: wt is the watcher's position, val its local copy of the word;
\* rewritten records a guest store made while shutdown waits in its join,
\* owed a wake of the host side that no signal carrying the word's value
\* has followed.
NewFutex(w) == [shutdown |-> FALSE, word |-> w, val |-> w, wt |-> "init",
                evt |-> 0, joined |-> FALSE, rewritten |-> FALSE, owed |-> FALSE]

\* An id that is free again as soon as its futex is shut down.
futex_id_taken_until_shutdown(id) == id \in DOMAIN futexes /\ ~futexes[id].shutdown

\* futexes.contains_key(&cmd_futex_new.id)
futex_id_taken(id) == id \in DOMAIN futexes

\* fileOk: the virtiofs table has the file and it can be duplicated.
futex_new(id, fileOk) ==
    /\ Call
    /\ call' = Called("futex_new", 0, FALSE)
    /\ IF futex_id_taken(id)
       THEN /\ result' = "AlreadyInUse"
            /\ UNCHANGED <<futexes, mapped, wjobs>>
       ELSE IF ~fileOk
       THEN /\ result' = "InvalidCrossDomainItemId"
            /\ UNCHANGED <<futexes, mapped, wjobs>>
       ELSE IF state.obj = "none"
       THEN /\ result' = "InvalidCrossDomainState"
            /\ UNCHANGED <<futexes, mapped, wjobs>>
       ELSE /\ result' = "ok"
            /\ wjobs' = add_job_w(state.obj, Job("AddFutex", id))
            /\ futexes' = MapInsert(futexes, id, NewFutex(0))
            /\ mapped' = mapped \cup {id}
    /\ UNCHANGED <<context_resources, items, paths, state, wstate, worker,
                   wait_ctx, resample_evt, kill_evt, channel, pipes, dpc, commands,
                   nextFence, signaled, assigned, enqueued, requeued, job, rings,
                   hung_up_ids, reads, blob, locks>>

\* A futex bitset is the set of its bits that are 1 (a u32 scaled to the
\* bits of BitIdxs).
BitIdxs == 0 .. 1

\* the bitset of the watcher's wait_bitset(atomic_val, val, 1)
watcher_bitset == {0}

\* futex::wake_bitset: wakes the waiters whose bitset has a bit in common
\* with bitset; the one waiter of the word is the watcher.
wake_bitset(f, bitset) ==
    [f EXCEPT !.wt = IF f.wt = "blocked" /\ bitset \cap watcher_bitset # {}
                     THEN "load" ELSE f.wt]

\* futex::wake_all: FUTEX_WAKE matches a waiter of any bitset.
wake_all(f) == wake_bitset(f, BitIdxs)

\* A FUTEX_SIGNAL that wakes with the watcher's own bitset.
futex_signal_bitset_of_the_watcher == watcher_bitset

\* !1u32, the bitset of futex_signal's wake
futex_signal_bitset == BitIdxs \ {0}

\* futex_signal: it wakes the waiters of the word whose bitset meets !1; the
\* call is not counted by MaxCmds.
futex_signal(id) ==
    /\ Idle
    /\ call' = Called("futex_signal",
                      IF id \in DOMAIN futexes THEN futexes[id].word ELSE 0, FALSE)
    /\ result' = IF id \in DOMAIN futexes THEN "ok" ELSE "InvalidCrossDomainItemId"
    /\ futexes' = IF id \in DOMAIN futexes
                  THEN [futexes EXCEPT ![id] = wake_bitset(futexes[id], futex_signal_bitset)]
                  ELSE futexes
    /\ UNCHANGED <<context_resources, items, paths, state, wstate, wjobs, worker,
                   wait_ctx, resample_evt, kill_evt, channel, pipes, dpc, commands,
                   ncmd, nextFence, signaled, mapped, assigned, enqueued, requeued,
                   job, rings, hung_up_ids, reads, blob, locks>>

\* CrossDomainFutex::shutdown up to the join: the flag is set, the word is
\* flipped and every waiter is woken.
shutdown(f) ==
    wake_all([f EXCEPT !.shutdown = TRUE, !.word = Not(f.word)])

\* futex_destroy up to the join inside shutdown; a second shutdown of the same
\* entry finds watcher_thread taken and panics in unwrap.
futex_destroy(id) ==
    /\ Call
    /\ call' = Called("futex_destroy", 0, FALSE)
    /\ IF id \notin DOMAIN futexes
       THEN /\ result' = "InvalidCrossDomainItemId"
            /\ UNCHANGED <<futexes, dpc>>
       ELSE /\ futexes' = [futexes EXCEPT ![id] = shutdown(futexes[id])]
            /\ result' = "pending"
            /\ dpc' = IF futexes[id].joined THEN [pc |-> "panicked", arg |-> id]
                      ELSE [pc |-> "futex_destroy_join", arg |-> id]
    /\ UNCHANGED <<context_resources, items, paths, state, wstate, wjobs, worker,
                   wait_ctx, resample_evt, kill_evt, channel, pipes, commands,
                   nextFence, signaled, mapped, assigned, enqueued, requeued, job,
                   rings, hung_up_ids, reads, blob, locks>>

\* A futex_destroy that returns without waiting for the watcher to exit.
futex_destroy_without_join ==
    /\ dpc.pc = "futex_destroy_join"
    /\ futexes' = [futexes EXCEPT ![dpc.arg].joined = TRUE]
    /\ result' = "ok"
    /\ dpc' = [pc |-> "idle", arg |-> 0]
    /\ UNCHANGED <<context_resources, items, paths, state, wstate, wjobs, worker,
                   wait_ctx, resample_evt, kill_evt, channel, pipes, commands,
                   ncmd, nextFence, signaled, mapped, assigned, enqueued, requeued,
                   job, call, rings, hung_up_ids, reads, blob, locks>>

\* futex_destroy: the join of the watcher returns, and so does the command.
futex_destroy_join ==
    /\ dpc.pc = "futex_destroy_join"
    /\ futexes[dpc.arg].wt = "exit"
    /\ futexes' = [futexes EXCEPT ![dpc.arg].joined = TRUE]
    /\ result' = "ok"
    /\ dpc' = [pc |-> "idle", arg |-> 0]
    /\ UNCHANGED <<context_resources, items, paths, state, wstate, wjobs, worker,
                   wait_ctx, resample_evt, kill_evt, channel, pipes, commands,
                   ncmd, nextFence, signaled, mapped, assigned, enqueued, requeued,
                   job, call, rings, hung_up_ids, reads, blob, locks>>

\* ---------------------------------------------------------- watcher_thread
WatcherUnchanged ==
    \* a watcher step changes futexes' alone
    /\ UNCHANGED <<context_resources, items, paths, state, wstate, wjobs, worker,
                   wait_ctx, resample_evt, kill_evt, channel, pipes, dpc, commands,
                   ncmd, result, nextFence, signaled, mapped, assigned, enqueued,
                   requeued, job, call, rings, hung_up_ids, reads, blob, locks>>

\* the signal before the loop
watcher_start(id) ==
    /\ id \in DOMAIN futexes
    /\ futexes[id].wt = "init"
    /\ futexes' = [futexes EXCEPT ![id].evt = 1, ![id].wt = "wait"]
    /\ WatcherUnchanged

\* futex::wait_bitset(atomic_val, val, 1): returns at once when the word
\* differs from val, blocks otherwise
watcher_wait(id) ==
    /\ id \in DOMAIN futexes
    /\ futexes[id].wt = "wait"
    /\ futexes' = [futexes EXCEPT ![id].wt =
                      IF futexes[id].word # futexes[id].val THEN "load" ELSE "blocked"]
    /\ WatcherUnchanged

\* val = atomic_val.load(SeqCst)
watcher_load(id) ==
    /\ id \in DOMAIN futexes
    /\ futexes[id].wt = "load"
    /\ futexes' = [futexes EXCEPT ![id].val = futexes[id].word, ![id].wt = "check"]
    /\ WatcherUnchanged

\* the shutdown check and the signal that follows it on either path
watcher_signal(id) ==
    /\ id \in DOMAIN futexes
    /\ futexes[id].wt = "check"
    /\ futexes' = [futexes EXCEPT ![id].evt = 1,
                      ![id].wt = IF futexes[id].shutdown THEN "exit" ELSE "wait",
                      ![id].owed = futexes[id].owed
                                      /\ futexes[id].val # futexes[id].word]
    /\ WatcherUnchanged

\* a guest store to the shared word
guest_store(id, v) ==
    /\ id \in DOMAIN futexes
    /\ futexes[id].word # v
    /\ futexes' = [futexes EXCEPT ![id].word = v,
                      ![id].rewritten = futexes[id].rewritten
                          \/ (futexes[id].shutdown /\ ~futexes[id].joined)]
    /\ WatcherUnchanged

\* The host side of the futex changes the word and wakes its waiters with
\* FUTEX_WAKE, which matches the watcher's bitset.
host_store_wake(id, v) ==
    /\ id \in DOMAIN futexes
    /\ ~futexes[id].shutdown
    /\ futexes[id].word # v
    /\ futexes' = [futexes EXCEPT ![id] =
                      wake_all([futexes[id] EXCEPT !.word = v, !.owed = TRUE])]
    /\ WatcherUnchanged

\* -------------------------------------------------------------------- drop
\* Drop for CrossDomainContext up to the join of the worker: Finish goes to
\* the queue of the context's state object and the kill event is signaled.
drop_start ==
    /\ Call
    /\ call' = Called("drop", 0, FALSE)
    /\ wjobs' = IF state.obj = "none" THEN wjobs ELSE add_job_w(state.obj, Job("Finish", 0))
    /\ kill_evt' = IF kill_evt = "none" THEN kill_evt ELSE "signaled"
    /\ dpc' = IF kill_evt = "none" THEN [pc |-> "drop_fields", arg |-> 0]
              ELSE [pc |-> "drop_join", arg |-> 0]
    /\ result' = "pending"
    /\ UNCHANGED <<context_resources, items, paths, state, wstate, worker,
                   wait_ctx, resample_evt, futexes, channel, pipes, commands,
                   nextFence, signaled, mapped, assigned, enqueued, requeued, job,
                   rings, hung_up_ids, reads, blob, locks>>

\* A drop that goes on to the context's fields while the worker still runs.
drop_join_without_waiting ==
    /\ dpc.pc = "drop_join"
    /\ dpc' = [pc |-> "drop_fields", arg |-> 0]
    /\ UNCHANGED <<context_resources, items, paths, state, wstate, wjobs, worker,
                   wait_ctx, resample_evt, kill_evt, futexes, channel, pipes,
                   commands, ncmd, result, nextFence, signaled, mapped, assigned,
                   enqueued, requeued, job, call, rings, hung_up_ids, reads, blob,
                   locks>>

\* worker_thread.join() returns
drop_join ==
    /\ dpc.pc = "drop_join"
    /\ worker.pc \in {"returned", "halted"}
    /\ dpc' = [pc |-> "drop_fields", arg |-> 0]
    /\ UNCHANGED <<context_resources, items, paths, state, wstate, wjobs, worker,
                   wait_ctx, resample_evt, kill_evt, futexes, channel, pipes,
                   commands, ncmd, result, nextFence, signaled, mapped, assigned,
                   enqueued, requeued, job, call, rings, hung_up_ids, reads, blob,
                   locks>>

\* The context's fields are dropped in declaration order: the item table
\* (closing every descriptor) before the futex table.
drop_items ==
    /\ dpc.pc = "drop_fields"
    /\ dpc.arg = 0
    /\ items' = [items EXCEPT !.table = EmptyMap]
    /\ pipes' = EmptyMap
    /\ dpc' = [pc |-> "drop_fields", arg |-> 1]
    /\ UNCHANGED <<context_resources, paths, state, wstate, wjobs, worker,
                   wait_ctx, resample_evt, kill_evt, futexes, channel, commands,
                   ncmd, result, nextFence, signaled, mapped, assigned, enqueued,
                   requeued, job, call, rings, hung_up_ids, reads, blob, locks>>

\* The futex table is dropped entry by entry, in key order.
MinKey(f) == CHOOSE k \in DOMAIN f : \A j \in DOMAIN f : k <= j

\* Drop for CrossDomainFutex of an entry nobody shut down: shutdown first.
drop_futex_shutdown ==
    /\ dpc.pc = "drop_fields"
    /\ dpc.arg = 1
    /\ futexes # EmptyMap
    /\ ~futexes[MinKey(futexes)].shutdown
    /\ futexes' = [futexes EXCEPT ![MinKey(futexes)] = shutdown(futexes[MinKey(futexes)])]
    /\ UNCHANGED <<context_resources, items, paths, state, wstate, wjobs, worker,
                   wait_ctx, resample_evt, kill_evt, channel, pipes, dpc, commands,
                   ncmd, result, nextFence, signaled, mapped, assigned, enqueued,
                   requeued, job, call, rings, hung_up_ids, reads, blob, locks>>

\* Drop for CrossDomainFutex: once shutdown has joined the watcher (a join
\* made here, or earlier by futex_destroy), the mapping is unmapped.
drop_futex_unmap ==
    /\ dpc.pc = "drop_fields"
    /\ dpc.arg = 1
    /\ futexes # EmptyMap
    /\ futexes[MinKey(futexes)].shutdown
    /\ futexes[MinKey(futexes)].joined \/ futexes[MinKey(futexes)].wt = "exit"
    /\ futexes' = MapRemove(futexes, MinKey(futexes))
    /\ mapped' = mapped \ {MinKey(futexes)}
    /\ UNCHANGED <<context_resources, items, paths, state, wstate, wjobs, worker,
                   wait_ctx, resample_evt, kill_evt, channel, pipes, dpc, commands,
                   ncmd, result, nextFence, signaled, assigned, enqueued, requeued,
                   job, call, rings, hung_up_ids, reads, blob, locks>>

drop_done ==
    /\ dpc.pc = "drop_fields"
    /\ dpc.arg = 1
    /\ futexes = EmptyMap
    /\ dpc' = [pc |-> "dropped", arg |-> 0]
    /\ result' = "ok"
    /\ UNCHANGED <<context_resources, items, paths, state, wstate, wjobs, worker,
                   wait_ctx, resample_evt, kill_evt, futexes, channel, pipes,
                   commands, ncmd, nextFence, signaled, mapped, assigned, enqueued,
                   requeued, job, call, rings, hung_up_ids, reads, blob, locks>>

\* ------------------------------------------------------------- environment
\* The server sends one message on the stream socket.
server_send(msg) ==
    /\ wstate.obj = "worker"
    /\ channel = <<>>
    /\ channel' = Append(channel, msg)
    /\ UNCHANGED <<context_resources, items, paths, state, wstate, wjobs, worker,
                   wait_ctx, resample_evt, kill_evt, futexes, pipes, dpc, commands,
                   ncmd, result, nextFence, signaled, mapped, assigned, enqueued,
                   requeued, job, call, rings, hung_up_ids, reads, blob, locks>>

\* The server writes into the write end a SEND handed to it.
server_pipe_write(id) ==
    /\ id \in DOMAIN pipes
    /\ ~pipes[id].closed
    /\ ~pipes[id].data
    /\ pipes' = [pipes EXCEPT ![id].data = TRUE]
    /\ UNCHANGED <<context_resources, items, paths, state, wstate, wjobs, worker,
                   wait_ctx, resample_evt, kill_evt, futexes, channel, dpc,
                   commands, ncmd, result, nextFence, signaled, mapped, assigned,
                   enqueued, requeued, job, call, rings, hung_up_ids, reads, blob,
                   locks>>

\* The server closes the write end.
server_pipe_close(id) ==
    /\ id \in DOMAIN pipes
    /\ ~pipes[id].closed
    /\ pipes' = [pipes EXCEPT ![id].closed = TRUE]
    /\ UNCHANGED <<context_resources, items, paths, state, wstate, wjobs, worker,
                   wait_ctx, resample_evt, kill_evt, futexes, channel, dpc,
                   commands, ncmd, result, nextFence, signaled, mapped, assigned,
                   enqueued, requeued, job, call, rings, hung_up_ids, reads, blob,
                   locks>>

\* -------------------------------------------------------------------- Next
\* Item ids a WRITE or a blob creation may name: every id add_item has
\* returned so far and one that is never assigned.
ItemIds == {assigned[i][2] : i \in DOMAIN assigned} \cup {1}

RingIdxs == {CROSS_DOMAIN_QUERY_RING, CROSS_DOMAIN_CHANNEL_RING, 2}

\* The requests create_blob is called with, and its iovec_opt.
BlobRequests ==
    {ResourceCreateBlob(m, f, s) : m \in BlobMems, f \in SUBSET BlobFlagBits,
                                   s \in BlobSizes}
IovecOpts == {"None", "Some"}

Next ==
    \/ \E r \in AttachIds, k \in AttachKinds : attach(r, k)
    \/ \E r \in AttachIds : detach(r)
    \/ \E q \in ResIds, c \in ResIds, t \in ChannelTypes : initialize(q, c, t)
    \/ \E ok \in BOOLEAN : get_image_requirements(ok)
    \/ \E c \in SendCmds, ok \in BOOLEAN : send(c, ok)
    \/ \E id \in ItemIds, h \in {0, 1}, len \in {0, 1}, ok \in BOOLEAN : write(id, h, len, ok)
    \/ \E id \in ItemIds, ok \in BOOLEAN : context_create_blob(id, ok)
    \/ \E i \in RingIdxs : context_create_fence(i)
    \/ \E id \in FutexIds, ok \in BOOLEAN : futex_new(id, ok)
    \/ \E id \in FutexIds : futex_signal(id)
    \/ \E id \in FutexIds : futex_destroy(id)
    \/ futex_destroy_join
    \/ drop_start
    \/ drop_join
    \/ drop_items
    \/ drop_futex_shutdown
    \/ drop_futex_unmap
    \/ drop_done
    \/ worker_start
    \/ run_HandleFence
    \/ run_AddReadPipe
    \/ run_AddFutex
    \/ run_Finish
    \/ handle_fence_wait
    \/ handle_fence_channel
    \/ handle_fence_resample
    \/ handle_fence_kill
    \/ handle_fence_futex
    \/ handle_fence_pipe
    \/ \E id \in FutexIds : watcher_start(id)
    \/ \E id \in FutexIds : watcher_wait(id)
    \/ \E id \in FutexIds : watcher_load(id)
    \/ \E id \in FutexIds : watcher_signal(id)
    \/ \E id \in FutexIds, v \in WordVals : guest_store(id, v)
    \/ \E id \in FutexIds, v \in WordVals : host_store_wake(id, v)
    \/ handle_fence_no_event
    \/ \E t \in Threads : \E h \in DOMAIN LockPaths(t) : lock_enter(t, h)
    \/ \E t \in Threads : lock_acquire(t)
    \/ \E t \in Threads : lock_release(t)
    \/ \E msg \in ServerMsgs : server_send(msg)
    \/ \E id \in DOMAIN pipes : server_pipe_write(id)
    \/ \E id \in DOMAIN pipes : server_pipe_close(id)
    \/ \E buf \in CommandBuffers : submit_cmd(buf)
    \/ submit_cmd_loop
    \/ \E r \in ResIds, c \in BlobRequests, io \in IovecOpts : create_blob(r, c, io)
    \/ attach_blob

Spec == Init /\ [][Next]_vars

\* ------------------------------------------------- component create_blob
\* The component's create_blob on every request of the input sets.
NextCreateBlob ==
    \E r \in ResIds, c \in BlobRequests, io \in IovecOpts : create_blob(r, c, io)

SpecCreateBlob == Init /\ [][NextCreateBlob]_vars

\* -------------------------------------------------- the resource table
\* The resources create_blob returns, attached to the context and detached
\* from it in any order.
NextAttach ==
    \/ \E r \in ResIds, c \in BlobRequests, io \in IovecOpts : create_blob(r, c, io)
    \/ attach_blob
    \/ \E r \in ResIds : detach(r)

SpecAttach == Init /\ [][NextAttach]_vars

\* ------------------------------------------------------- the item table
\* The context with every operation that touches the item table or the
\* waitset entries of read pipes: no futex commands.
NextItems ==
    \/ \E r \in AttachIds, k \in AttachKinds : attach(r, k)
    \/ \E r \in AttachIds : detach(r)
    \/ \E q \in ResIds, c \in ResIds, t \in ChannelTypes : initialize(q, c, t)
    \/ \E ok \in BOOLEAN : get_image_requirements(ok)
    \/ \E c \in SendCmds, ok \in BOOLEAN : send(c, ok)
    \/ \E id \in ItemIds, h \in {0, 1}, len \in {0, 1}, ok \in BOOLEAN : write(id, h, len, ok)
    \/ \E id \in ItemIds, ok \in BOOLEAN : context_create_blob(id, ok)
    \/ \E i \in RingIdxs : context_create_fence(i)
    \/ drop_start
    \/ drop_join
    \/ drop_items
    \/ drop_done
    \/ worker_start
    \/ run_HandleFence
    \/ run_AddReadPipe
    \/ run_Finish
    \/ handle_fence_wait
    \/ handle_fence_channel
    \/ handle_fence_resample
    \/ handle_fence_kill
    \/ handle_fence_pipe
    \/ \E msg \in ServerMsgs : server_send(msg)
    \/ \E id \in DOMAIN pipes : server_pipe_write(id)
    \/ \E id \in DOMAIN pipes : server_pipe_close(id)

SpecItems == Init /\ [][NextItems]_vars

\* ------------------------------------------- the worker and the futexes
\* The context with every operation that adds a job, signals an event of
\* the waitset or touches the futex table; the guest leaves the futex words
\* alone and never names an item.
NextWorker ==
    \/ \E r \in AttachIds, k \in AttachKinds : attach(r, k)
    \/ \E r \in AttachIds : detach(r)
    \/ \E q \in ResIds, c \in ResIds, t \in ChannelTypes : initialize(q, c, t)
    \/ \E c \in SendCmds, ok \in BOOLEAN : send(c, ok)
    \/ \E i \in RingIdxs : context_create_fence(i)
    \/ \E id \in FutexIds, ok \in BOOLEAN : futex_new(id, ok)
    \/ \E id \in FutexIds : futex_destroy(id)
    \/ futex_destroy_join
    \/ drop_start
    \/ drop_join
    \/ drop_items
    \/ drop_futex_shutdown
    \/ drop_futex_unmap
    \/ drop_done
    \/ worker_start
    \/ run_HandleFence
    \/ run_AddReadPipe
    \/ run_AddFutex
    \/ run_Finish
    \/ handle_fence_wait
    \/ handle_fence_channel
    \/ handle_fence_resample
    \/ handle_fence_kill
    \/ handle_fence_futex
    \/ handle_fence_pipe
    \/ \E id \in FutexIds : watcher_start(id)
    \/ \E id \in FutexIds : watcher_wait(id)
    \/ \E id \in FutexIds : watcher_load(id)
    \/ \E id \in FutexIds : watcher_signal(id)
    \/ \E msg \in ServerMsgs : server_send(msg)
    \/ \E id \in DOMAIN pipes : server_pipe_write(id)
    \/ \E id \in DOMAIN pipes : server_pipe_close(id)

SpecWorker == Init /\ [][NextWorker]_vars

\* ------------------------------------------------------ command buffers
\* The context with the command buffers the guest submits as a whole.
NextSubmit ==
    \/ \E r \in AttachIds, k \in AttachKinds : attach(r, k)
    \/ \E r \in AttachIds : detach(r)
    \/ \E buf \in CommandBuffers : submit_cmd(buf)
    \/ submit_cmd_loop
    \/ worker_start

SpecSubmit == Init /\ [][NextSubmit]_vars

\* ------------------------------------------- read pipes beside a futex
\* A futex id the guest chooses inside the read-pipe range: the id add_item
\* gives to the first read pipe.
ReadPipeFutexIds == {CROSS_DOMAIN_PIPE_READ_START + 1}

\* The context with the operations that create read pipes and futexes and
\* the worker's service of their events; the server sends no message and
\* the context is not dropped.
NextReadPipes ==
    \/ \E r \in AttachIds, k \in AttachKinds : attach(r, k)
    \/ \E q \in ResIds, c \in ResIds, t \in ChannelTypes : initialize(q, c, t)
    \/ \E c \in SendCmds, ok \in BOOLEAN : send(c, ok)
    \/ \E i \in RingIdxs : context_create_fence(i)
    \/ \E id \in ReadPipeFutexIds, ok \in BOOLEAN : futex_new(id, ok)
    \/ worker_start
    \/ run_HandleFence
    \/ run_AddReadPipe
    \/ run_AddFutex
    \/ handle_fence_wait
    \/ handle_fence_resample
    \/ handle_fence_pipe
    \/ \E id \in ReadPipeFutexIds : watcher_start(id)
    \/ \E id \in ReadPipeFutexIds : watcher_wait(id)
    \/ \E id \in DOMAIN pipes : server_pipe_write(id)
    \/ \E id \in DOMAIN pipes : server_pipe_close(id)

SpecReadPipes == Init /\ [][NextReadPipes]_vars

\* ------------------------------------------- one futex and its watcher
\* The ring resource of the contexts below and the futex id the guest uses.
Ring == CHOOSE r \in AttachIds : TRUE
LiveFutexIds == {CROSS_DOMAIN_FUTEX_START}

\* A step of the worker thread while it serves fences and AddFutex jobs.
FutexWorkerStep ==
    \/ worker_start
    \/ run_HandleFence
    \/ run_AddFutex
    \/ handle_fence_wait
    \/ handle_fence_futex

\* A step of the watcher thread of futex id.
WatcherStep(id) ==
    \/ watcher_start(id)
    \/ watcher_wait(id)
    \/ watcher_load(id)
    \/ watcher_signal(id)

\* A channelled context whose rings are guest memory, with the futex
\* commands, channel-ring fences and guest stores to the shared word; the
\* server is silent and the context is not dropped.
NextFutex ==
    \/ attach(Ring, "iovecs")
    \/ initialize(Ring, Ring, 1)
    \/ context_create_fence(CROSS_DOMAIN_CHANNEL_RING)
    \/ \E id \in LiveFutexIds : futex_new(id, TRUE)
    \/ \E id \in LiveFutexIds : futex_signal(id)
    \/ \E id \in LiveFutexIds : futex_destroy(id)
    \/ futex_destroy_join
    \/ FutexWorkerStep
    \/ \E id \in LiveFutexIds : WatcherStep(id)
    \/ \E id \in LiveFutexIds, v \in WordVals : guest_store(id, v)

\* The worker and the watchers are threads of the host: each takes its next
\* step when it can, and a join returns once the thread has exited.  The
\* guest may stop at any point.
FutexFairness ==
    /\ WF_vars(FutexWorkerStep)
    /\ \A id \in LiveFutexIds : WF_vars(WatcherStep(id))
    /\ WF_vars(futex_destroy_join)

SpecFutex == Init /\ [][NextFutex]_vars /\ FutexFairness

\* ------------------------------------- a waitset service without event
\* A channelled context with its fences and the server's messages, whose
\* waitset may return from a wait with no event.
NextNoEvent ==
    \/ attach(Ring, "iovecs")
    \/ initialize(Ring, Ring, 1)
    \/ \E i \in RingIdxs : context_create_fence(i)
    \/ worker_start
    \/ run_HandleFence
    \/ handle_fence_wait
    \/ handle_fence_no_event
    \/ handle_fence_channel
    \/ \E msg \in ServerMsgs : server_send(msg)

SpecNoEvent == Init /\ [][NextNoEvent]_vars

\* ------------------------------------- messages with many descriptors
\* Messages of the server with up to one descriptor more than a RECEIVE
\* record has identifier slots, memory and write pipes in turn.
MaxFiles == CROSS_DOMAIN_MAX_IDENTIFIERS + 1
ReceiveMsgs ==
    {Msg([k \in 1..n |-> IF k % 2 = 1 THEN "Memory" ELSE "WritePipe"], FALSE) :
        n \in 0..MaxFiles}

\* A channelled context, its fences and the server's messages.
NextReceive ==
    \/ attach(Ring, "iovecs")
    \/ initialize(Ring, Ring, 1)
    \/ \E i \in RingIdxs : context_create_fence(i)
    \/ worker_start
    \/ run_HandleFence
    \/ handle_fence_wait
    \/ handle_fence_channel
    \/ \E msg \in ReceiveMsgs : server_send(msg)

SpecReceive == Init /\ [][NextReceive]_vars

\* ---------------------------------------------------- the locking order
\* The dispatcher and the worker, each going through its handlers' locks.
NextLocks ==
    \/ \E h \in DOMAIN DispatcherLocks : lock_enter("dispatcher", h)
    \/ \E h \in DOMAIN WorkerLocks : lock_enter("worker", h)
    \/ \E t \in Threads : lock_acquire(t)
    \/ \E t \in Threads : lock_release(t)

SpecLocks == Init /\ [][NextLocks]_vars

\* ------------------------------------- the watcher and the host's wakes
\* One futex of a channelled context whose worker has registered it; the
\* host side stores to the word and wakes, the guest destroys the futex.
NextWatcher ==
    \/ attach(Ring, "iovecs")
    \/ initialize(Ring, Ring, 1)
    \/ worker_start
    \/ run_AddFutex
    \/ \E id \in LiveFutexIds : futex_new(id, TRUE)
    \/ \E id \in LiveFutexIds : futex_destroy(id)
    \/ futex_destroy_join
    \/ \E id \in LiveFutexIds : WatcherStep(id)
    \/ \E id \in LiveFutexIds, v \in WordVals : host_store_wake(id, v)

\* The watcher is a thread of the host and takes its next step when it can.
SpecWatcher ==
    Init /\ [][NextWatcher]_vars /\ \A id \in LiveFutexIds : WF_vars(WatcherStep(id))

\* ------------------------------------------ read pipes and the resample
\* SEND commands that hand one read pipe to the server.
PipeCmds ==
    {CrossDomainSendReceive(1, <<Ident(CROSS_DOMAIN_PIPE_READ_START + k, "READ_PIPE")>>) :
        k \in {1, 2}}

\* A step of the worker thread while it serves fences and AddReadPipe jobs.
PipeWorkerStep ==
    \/ worker_start
    \/ run_HandleFence
    \/ run_AddReadPipe
    \/ handle_fence_wait
    \/ handle_fence_resample
    \/ handle_fence_pipe

\* A channelled context whose rings are guest memory, with SEND commands
\* that create read pipes and channel-ring fences; the server writes into
\* the pipes and closes them but sends nothing, and the context is not
\* dropped.
NextPipes ==
    \/ attach(Ring, "iovecs")
    \/ initialize(Ring, Ring, 1)
    \/ \E c \in PipeCmds, ok \in BOOLEAN : send(c, ok)
    \/ context_create_fence(CROSS_DOMAIN_CHANNEL_RING)
    \/ PipeWorkerStep
    \/ \E id \in DOMAIN pipes : server_pipe_write(id)
    \/ \E id \in DOMAIN pipes : server_pipe_close(id)

\* The worker is a thread of the host: it takes its next step when it can.
\* The guest and the server may stop at any point.
SpecPipes == Init /\ [][NextPipes]_vars /\ WF_vars(PipeWorkerStep)

\* ------------------------------------------------------------------ claims
\* The worker's HandleFence job is over and handle_fence returned Ok.
JobDone == worker.pc = "wait_for_job" /\ job.services = 1

\* The step in which handle_fence returns.
JobEnds == worker.pc = "service" /\ worker'.pc # "service"

\* In which of two positions of a sequence the smaller index comes first.
Before(s, a, b) ==
    \E i \in DOMAIN s, j \in DOMAIN s : i < j /\ s[i] = a /\ s[j] = b

IsOdd(n) == n % 2 = 1

\* The identifiers add_item gave to items of kind `kind`, in order.
IdsOfKind(isPipe) ==
    {i \in DOMAIN assigned : (assigned[i][1] = "WaylandReadPipe") = isPipe}

\* How many read pipes were inserted up to position i of `assigned`.
PipesUpTo(i) == Cardinality({j \in IdsOfKind(TRUE) : j <= i})

\* C1 as stated: whichever event a HandleFence job serviced, the job made
\* exactly one ring write and signaled exactly one fence before the worker
\* went back to the job queue.
C1_EveryEventWritesAndSignals ==
    JobDone => (job.writes = 1 /\ job.signals = 1)

\* C1, amended: a HandleFence job that serviced CHANNEL, a live futex or a
\* read pipe made exactly one ring write and signaled its fence once; one
\* that serviced KILL signaled its fence without a ring write; one that
\* serviced RESAMPLE or a futex that is shut down or absent made no ring
\* write, signaled nothing and left its fence on the job queue.
C1_WritesAndSignalsPerArm ==
    JobDone =>
        CASE job.event \in {"CHANNEL", "FUTEX", "PIPE"} ->
                 job.writes = 1 /\ job.signals = 1
          [] job.event = "KILL" ->
                 job.writes = 0 /\ job.signals = 1
          [] job.event \in {"RESAMPLE", "FUTEX_SHUTDOWN", "FUTEX_ABSENT"} ->
                 /\ job.writes = 0
                 /\ job.signals = 0
                 /\ Job("HandleFence", job.fence) \in Range(wjobs)
          [] OTHER -> FALSE

\* A job that serviced RESAMPLE is over and its fence waits on the queue.
C1_Witness ==
    /\ JobDone
    /\ job.event = "RESAMPLE"
    /\ Job("HandleFence", job.fence) \in Range(wjobs)

\* C2: the worker never coalesces events: a HandleFence job services at
\* most one waitset event, makes at most one ring write and signals at most
\* one fence; no two ring writes of the worker lie between two fence
\* signals; no fence is signaled twice.
C2_NoCoalescing ==
    /\ job.services <= 1
    /\ job.writes <= 1
    /\ job.signals <= 1
    /\ job.unsignaled <= 1
    /\ \A i \in DOMAIN signaled, j \in DOMAIN signaled :
           i # j => signaled[i] # signaled[j]

\* A job wrote the channel's message and signaled its fence while another
\* entry of the waitset was ready: that event waits for the next fence.
C2_Witness ==
    /\ JobDone
    /\ job.event = "CHANNEL"
    /\ job.signals = 1
    /\ \E e \in wait_ctx : Ready(e)

\* C3 as stated: every identifier given to an item that is not a read pipe
\* is odd, the first one is 1, and each later one is greater than every
\* earlier one.
C3_DescriptorIdsOddFromOne ==
    /\ \A i \in IdsOfKind(FALSE) : IsOdd(assigned[i][2])
    /\ \A i \in IdsOfKind(FALSE) :
           (\A j \in IdsOfKind(FALSE) : i <= j) => assigned[i][2] = 1
    /\ \A i \in IdsOfKind(FALSE), j \in IdsOfKind(FALSE) :
           i < j => assigned[i][2] < assigned[j][2]

\* C4: the k-th read pipe inserted gets PIPE_READ_START + k whatever other
\* insertions lie in between, so read pipe ids are at least PIPE_READ_START
\* and increase; and while no read pipe was inserted, a SEND whose READ_PIPE
\* identifier is PIPE_READ_START + 1 passes the check of the guessed id.
C4_ReadPipeIds ==
    /\ \A i \in IdsOfKind(TRUE) :
           assigned[i][2] = CROSS_DOMAIN_PIPE_READ_START + PipesUpTo(i)
    /\ \A i \in IdsOfKind(TRUE), j \in IdsOfKind(TRUE) :
           i < j => /\ CROSS_DOMAIN_PIPE_READ_START <= assigned[i][2]
                    /\ assigned[i][2] < assigned[j][2]
    /\ IdsOfKind(TRUE) = {} =>
           send_identifiers(
               <<Ident(CROSS_DOMAIN_PIPE_READ_START + 1, "READ_PIPE")>>,
               items, 0).err = "ok"

\* Two read pipes were inserted with an item of another kind in between.
C4_Witness ==
    \E i \in IdsOfKind(TRUE), j \in IdsOfKind(FALSE), k \in IdsOfKind(TRUE) :
        i < j /\ j < k

\* C5 as stated: no number is a key of the futex table and an item
\* identifier at once, and none was given both to a read pipe and to an
\* item of another kind.
C5_IdSpacesDisjoint ==
    /\ DOMAIN futexes \cap DOMAIN items.table = {}
    /\ \A i \in IdsOfKind(TRUE), j \in IdsOfKind(FALSE) :
           assigned[i][2] # assigned[j][2]
    /\ \A i \in DOMAIN assigned : assigned[i][2] \notin DOMAIN futexes

\* C6 as stated, in the part a finite run refutes: drop never waits for a
\* worker that waits for a job on an empty queue (the dispatcher is inside
\* drop, so nobody else can add the Finish job the worker would need).
C6_DropFindsTheWorkersQueue ==
    ~(dpc.pc = "drop_join" /\ worker.pc = "wait_for_job" /\ wjobs = <<>>)

\* C7 as stated: once an INIT has succeeded, no later step replaces the
\* context's state object, ring ids or connection, or starts a worker.
C7_InitAtMostOnce ==
    [][state.obj # "none" => (state' = state /\ wstate' = wstate)]_vars

C9_GoneAfterNextJob ==
    [][(JobEnds /\ Idle) =>
           \A id \in job.destroyed :
               (Arm(id) = "FUTEX" /\ Src(id, "futex", id) \in wait_ctx)
                   => id \notin DOMAIN futexes']_vars

\* C9, amended: a futex whose FUTEX_DESTROY had returned before a
\* HandleFence job was taken leaves the table in that job exactly if the
\* one event the job services is that futex's; a job that services another
\* ready event leaves the entry in the table.
C9_GoneWhenItsEventIsServiced ==
    [][JobEnds =>
           \A id \in job.destroyed :
               (id \notin DOMAIN futexes') <=>
                   (Arm(worker.event.cid) = "FUTEX" /\ worker.event.cid = id)]_vars

\* A job taken after FUTEX_DESTROY returned serviced the channel and left
\* the destroyed futex in the table.
C9_Witness ==
    /\ JobDone
    /\ job.event = "CHANNEL"
    /\ job.destroyed # {}
    /\ job.destroyed \subseteq DOMAIN futexes

\* C10 as stated: fences enqueued on the channel ring are signaled in the
\* order context_create_fence enqueued them.
C10_SignaledInEnqueueOrder ==
    \A f1 \in Range(enqueued), f2 \in Range(enqueued) :
        (Before(enqueued, f1, f2) /\ f1 \in Range(signaled)
            /\ f2 \in Range(signaled))
        => Before(signaled, f1, f2)

\* C10, amended: of two fences enqueued on the channel ring and both
\* signaled, the one enqueued first is signaled first unless handle_fence
\* enqueued it again (RESAMPLE, or a futex that is shut down or absent).
C10_SignaledInEnqueueOrderUnlessRequeued ==
    \A f1 \in Range(enqueued), f2 \in Range(enqueued) :
        (Before(enqueued, f1, f2) /\ f1 \in Range(signaled)
            /\ f2 \in Range(signaled) /\ f1 \notin requeued)
        => Before(signaled, f1, f2)

\* Two fences of the channel ring were signaled, the second against the
\* order of their enqueueing, the first in it.
C10_Witness ==
    \E f1 \in Range(enqueued), f2 \in Range(enqueued), f3 \in Range(enqueued) :
        /\ Before(enqueued, f1, f2)
        /\ Before(signaled, f1, f2)
        /\ f1 \notin requeued
        /\ f3 \in requeued
        /\ f3 \in Range(signaled)

\* C11: a READ record carries hang_up = 1 exactly when the service that wrote
\* it took the pipe out of the waitset and out of the item table, and a READ
\* record with hang_up = 1 is the last READ record of its identifier.
C11_HangUpReadIsLastAndRemoves ==
    /\ \A i \in DOMAIN reads : (reads[i].hang_up = 1) <=> reads[i].removed
    /\ \A i \in DOMAIN reads, j \in DOMAIN reads :
          (i < j /\ reads[i].identifier = reads[j].identifier)
              => reads[i].hang_up = 0

\* C12: once a WRITE with hang_up = 1 on an identifier has returned Ok, every
\* later WRITE on that identifier and every later context_create_blob with it
\* as blob_id returns InvalidCrossDomainItemId.
C12_HungUpIdStaysInvalid ==
    [][(/\ ncmd' = ncmd + 1
        /\ call'.op \in {"write", "context_create_blob"}
        /\ call'.arg \in hung_up_ids)
         => result' = "InvalidCrossDomainItemId"]_vars

\* A blob creation named an identifier whose write pipe was hung up.
C12_Witness ==
    /\ call.op = "context_create_blob"
    /\ call.arg \in hung_up_ids
    /\ result = "InvalidCrossDomainItemId"

\* C13: a Blob item leaves the item table only in a context_create_blob whose
\* blob_id is its identifier or in the drop of the context.
C13_BlobLeavesByCreateBlobOrDrop ==
    [][\A b \in DOMAIN items.table :
          (items.table[b] = "Blob" /\ b \notin DOMAIN items'.table)
          => \/ /\ ncmd' = ncmd + 1
                /\ call'.op = "context_create_blob"
                /\ call'.arg = b
             \/ dpc.pc = "drop_fields"]_vars

\* C14: a SEND that fails in send_msg leaves every item of the table in
\* place and adds at most the one WaylandReadPipe it created, and a read pipe
\* created by such a SEND leaves the table only in the drop of the context.
C14_FailedSendKeepsItsPipeUntilDrop ==
    [][/\ (ncmd' = ncmd + 1 /\ call'.op = "send" /\ result' = "IoError")
          => /\ \A i \in DOMAIN items.table :
                   i \in DOMAIN items'.table /\ items'.table[i] = items.table[i]
             /\ Cardinality(DOMAIN items'.table \ DOMAIN items.table) <= 1
             /\ \A i \in DOMAIN items'.table \ DOMAIN items.table :
                   items'.table[i] = "WaylandReadPipe"
       /\ \A p \in DOMAIN pipes :
             (/\ pipes[p].send = "IoError"
              /\ p \in DOMAIN items.table
              /\ p \notin DOMAIN items'.table)
             => dpc.pc = "drop_fields"]_vars

\* The identifier loop of SEND command c reaches a READ_PIPE identifier that
\* is not the identifier add_item is about to return: the count is within
\* the limit and everything before that identifier is a resource with a
\* handle.
ReachesWrongGuess(c) ==
    /\ ~too_many_identifiers(c.num_identifiers)
    /\ \E k \in 1..Min(c.num_identifiers, Len(c.ids)) :
          /\ c.ids[k].type = "READ_PIPE"
          /\ c.ids[k].id # add_item_id(items, "WaylandReadPipe")
          /\ \A j \in 1..(k - 1) :
                /\ c.ids[j].type = "VIRTGPU_BLOB"
                /\ c.ids[j].id \in ResIds
                /\ context_resources[c.ids[j].id] = "handle"

\* C15: a SEND whose READ_PIPE identifier is not the identifier assigned to
\* the new read pipe returns InvalidCrossDomainItemId, and it does so before
\* the send: no message goes to the socket, no job is added and the resample
\* event is not signaled.
C15_WrongGuessFailsBeforeTheSend ==
    [][call'.op = "send" =>
          \A c \in SendCmds, ok \in BOOLEAN :
             (send(c, ok) /\ ReachesWrongGuess(c))
             => /\ result' = "InvalidCrossDomainItemId"
                /\ ~call'.sent
                /\ wjobs' = wjobs
                /\ resample_evt' = resample_evt]_vars

\* A SEND with a wrong guess failed on a context whose worker runs and whose
\* socket would have taken the message.
C15_Witness ==
    /\ call.op = "send"
    /\ result = "InvalidCrossDomainItemId"
    /\ state.obj = "worker"
    /\ assigned # <<>>
    /\ assigned[Len(assigned)][1] = "WaylandReadPipe"
    /\ pipes[assigned[Len(assigned)][2]].send = "InvalidCrossDomainItemId"

\* The READ_PIPE identifiers among those SEND command c declares.
ReadPipesOf(c) ==
    {k \in 1..Min(c.num_identifiers, Len(c.ids)) : c.ids[k].type = "READ_PIPE"}

\* C16: a SEND that declares more than MAX_IDENTIFIERS identifiers or carries
\* more than one READ_PIPE identifier returns an error and puts no message
\* on the stream socket.
C16_TooManyIdentifiersOrPipesSendNothing ==
    [][call'.op = "send" =>
          \A c \in SendCmds, ok \in BOOLEAN :
             (/\ send(c, ok)
              /\ \/ c.num_identifiers > CROSS_DOMAIN_MAX_IDENTIFIERS
                 \/ Cardinality(ReadPipesOf(c)) > 1)
             => (result' # "ok" /\ ~call'.sent)]_vars

\* A SEND was refused for its second READ_PIPE identifier on a context whose
\* worker runs: its first pipe is in the table.
C16_Witness ==
    /\ call.op = "send"
    /\ result = "expected just one pipe pair"
    /\ state.obj = "worker"
    /\ ~call.sent
    /\ assigned # <<>>
    /\ pipes[assigned[Len(assigned)][2]].send = "expected just one pipe pair"

\* C17: when the CHANNEL arm's ring write fails with InvalidIovec, the ring
\* holds what it held before: neither the header nor the payload is written.
C17_InvalidIovecLeavesTheRing ==
    [][(/\ worker.pc = "service"
        /\ worker.event.k = "channel"
        /\ handle_fence_channel_result = "InvalidIovec"
        /\ worker'.pc = "halted")
         => rings' = rings]_vars

\* C20: context_create_fence routes by ring index.  On the query ring the
\* fence is signaled in the call and no job is added; on the channel ring
\* exactly one HandleFence job for the fence is added and the call does not
\* signal it; any other index returns an error, signals nothing and adds no
\* job.
C20_FenceRoutedByRingIndex ==
    [][call'.op = "context_create_fence" =>
          \A i \in RingIdxs :
             context_create_fence(i)
             => IF i = CROSS_DOMAIN_QUERY_RING
                THEN /\ signaled' = Append(signaled, nextFence)
                     /\ enqueued' = enqueued
                     /\ wjobs' = wjobs
                ELSE IF i = CROSS_DOMAIN_CHANNEL_RING
                THEN /\ enqueued' = Append(enqueued, nextFence)
                     /\ signaled' = signaled
                ELSE /\ result' # "ok"
                     /\ signaled' = signaled
                     /\ enqueued' = enqueued
                     /\ wjobs' = wjobs]_vars

\* The loop of submit_cmd stands before an INIT in the legacy layout: its
\* header says sizeof(CrossDomainInitLegacy) and its four words are there.
LegacyInitAtHead ==
    /\ dpc.pc = "submit_cmd"
    /\ read_from_prefix(commands, SIZE_OF_CrossDomainInitLegacy)
    /\ commands[1] = CROSS_DOMAIN_CMD_INIT
    /\ commands[2] = SIZE_OF_CrossDomainInitLegacy

\* C18: wherever a legacy INIT {header, query_ring_id, channel_type} sits in
\* a command buffer and whatever follows it, its iteration does to the
\* context what the full INIT with channel_ring_id = query_ring_id and the
\* same channel_type does, and fails exactly when that INIT fails, with the
\* same error.
C18_LegacyInitIsFullInitWithOneRing ==
    [][(LegacyInitAtHead /\ dpc' # dpc) =>
          /\ initialize_do(commands[3], commands[3], commands[4])
          /\ initialize_result(commands[3], commands[3], commands[4]) # "ok"
                => (/\ dpc'.pc = "idle"
                    /\ result' = initialize_result(commands[3], commands[3],
                                                   commands[4]))
          /\ initialize_result(commands[3], commands[3], commands[4]) = "ok"
                => result' \in {"pending", "InvalidCommandSize"}]_vars

\* C19: every iteration of submit_cmd's loop either returns or leaves a
\* shorter rest of the buffer, so the call returns after finitely many
\* iterations.
C19_EveryIterationAdvancesOrReturns ==
    [][(dpc.pc = "submit_cmd" /\ dpc'.pc = "submit_cmd")
          => Len(commands') < Len(commands)]_vars

\* ---------------------------------------------------------------------- C21
\* The identifiers that were given to items of kind `kind`.
AssignedAs(kind) == {assigned[i][2] : i \in {j \in DOMAIN assigned : assigned[j][1] = kind}}

\* C21: context_create_blob on an ImageRequirements item leaves the item
\* table as it was, whatever the call returns, and returns a resource
\* whenever the size matches and the allocation works; on a Blob item it
\* returns a resource and removes the item; and on the identifier of a Blob
\* that is no longer in the table it fails with InvalidCrossDomainItemId.
C21_RequirementsStayBlobsAreUsedOnce ==
    [][(ncmd' # ncmd /\ call'.op = "context_create_blob") =>
          /\ (call'.arg \in DOMAIN items.table
                /\ items.table[call'.arg] = "ImageRequirements")
               => (items' = items /\ result' \in {"ok", "MesaError"})
          /\ (call'.arg \in DOMAIN items.table /\ items.table[call'.arg] = "Blob")
               => (/\ result' = "ok"
                   /\ call'.arg \notin DOMAIN items'.table
                   /\ items'.descriptor_id = items.descriptor_id)
          /\ (call'.arg \in AssignedAs("Blob") /\ call'.arg \notin DOMAIN items.table)
               => (result' = "InvalidCrossDomainItemId" /\ items' = items)]_vars

\* A blob creation has just failed on the identifier of a Blob that an
\* earlier command took out of the table.
C21_Witness ==
    /\ call.op = "context_create_blob"
    /\ result = "InvalidCrossDomainItemId"
    /\ call.arg \in AssignedAs("Blob")
    /\ call.arg \notin DOMAIN items.table

\* ---------------------------------------------------------------------- C22
\* The fence ids the guest can create.
FenceIds == 1 .. MaxCmds

\* Fence f went to the worker and has not been signaled.
Pending(f) == f \in Range(enqueued) /\ f \notin Range(signaled)

\* FUTEX_SIGNAL{id} has just returned Ok on a live futex whose event the
\* worker has in its waitset: the guest had changed the word after the
\* watcher loaded it and has left it alone since, and the watcher is inside
\* its wait.
SignalAfterStore(id) ==
    /\ call.op = "futex_signal"
    /\ result = "ok"
    /\ id \in DOMAIN futexes
    /\ ~futexes[id].shutdown
    /\ futexes[id].word # futexes[id].val
    /\ futexes[id].word = call.arg
    /\ futexes[id].wt = "blocked"
    /\ Src(id, "futex", id) \in wait_ctx

\* C22: once the guest has changed the word of a live futex and FUTEX_SIGNAL
\* has returned while a channel-ring fence is with the worker, the worker
\* eventually writes FUTEX_SIGNAL into the channel ring and signals one more
\* fence, unless the futex is destroyed first.
C22_SignalReachesTheGuest ==
    \A id \in LiveFutexIds, n \in 0 .. MaxCmds :
        (/\ SignalAfterStore(id)
         /\ Len(signaled) = n
         /\ \E f \in FenceIds : Pending(f))
            ~> \/ (Len(signaled) > n /\ rings[Ring].hdr = "FUTEX_SIGNAL")
               \/ id \notin DOMAIN futexes
               \/ futexes[id].shutdown

\* ---------------------------------------------------------------------- C23
\* C23: the component's create_blob turns away every request whose blob_mem
\* is not guest memory, whatever its blob_flags, and returns no resource
\* for it.
C23_OnlyGuestMemoryBlobs ==
    (blob.called /\ blob.request.blob_mem # RUTABAGA_BLOB_MEM_GUEST)
        => blob.returned.err # "ok"

\* ---------------------------------------------------------------------- C24
\* C24: every entry of the context resource table has exactly one of its
\* two fields set: the iovec list or the handle, never both and never
\* neither.
C24_ExactlyOneFieldSet ==
    \A r \in DOMAIN context_resources :
        context_resources[r] \in {"absent", "iovecs", "handle"}

\* ---------------------------------------------------------------------- C25
\* C25 as stated: GET_IMAGE_REQUIREMENTS on a context without a completed
\* INIT fails with InvalidCrossDomainState, adds no item (no identifier is
\* consumed) and writes nothing to any ring.
C25_NoInitNoRequirements ==
    [][(ncmd' # ncmd /\ call'.op = "get_image_requirements" /\ state.obj = "none") =>
          /\ result' = "InvalidCrossDomainState"
          /\ items' = items
          /\ rings' = rings]_vars

\* C25, amended: GET_IMAGE_REQUIREMENTS on a context without a completed
\* INIT fails, with the allocator's error when the allocator turns the query
\* down and with InvalidCrossDomainState otherwise; it adds no item (no
\* identifier is consumed) and writes nothing to any ring.
C25_NoInitFailsAfterTheAllocator ==
    [][\A ok \in BOOLEAN :
          (state.obj = "none" /\ get_image_requirements(ok)) =>
              /\ result' = IF ok THEN "InvalidCrossDomainState" ELSE "GrallocError"
              /\ items' = items
              /\ assigned' = assigned
              /\ rings' = rings]_vars

\* The allocator has turned down a query on a context without a state.
C25_Witness ==
    /\ call.op = "get_image_requirements"
    /\ result = "GrallocError"
    /\ state.obj = "none"
    /\ items = CrossDomainItems_default

\* ---------------------------------------------------------------------- C26
\* C26: FUTEX_NEW with an id that is in the futex table fails with
\* AlreadyInUse and leaves the entry, its watcher, its mapping, the job queue
\* and the waitset as they were, also when the entry is shut down and the
\* worker has not removed it yet.
C26_TakenIdIsAlreadyInUse ==
    [][\A id \in DOMAIN futexes, ok \in BOOLEAN :
          futex_new(id, ok) =>
              /\ result' = "AlreadyInUse"
              /\ UNCHANGED <<futexes, mapped, wjobs, wait_ctx, worker>>]_vars

\* FUTEX_NEW has just failed on the id of an entry whose FUTEX_DESTROY had
\* returned and which is still in the table.
C26_Witness ==
    /\ call.op = "futex_new"
    /\ result = "AlreadyInUse"
    /\ \E id \in DOMAIN futexes : futexes[id].shutdown /\ futexes[id].joined

\* ---------------------------------------------------------------------- C27
\* The worker leaves the RESAMPLE arm of handle_fence in this step.
ResampleServed ==
    /\ worker.pc = "service"
    /\ Arm(worker.event.cid) = "RESAMPLE"
    /\ worker' # worker

\* C27: when the waitset service of HandleFence(fence) returns RESAMPLE, the
\* worker drains the resample event, signals no fence, writes no ring and
\* puts HandleFence(fence) at the tail of the job queue, behind every job
\* that is in the queue; and the queue is served in order: a step that
\* changes it either takes its head for the worker or adds one job at its
\* tail (INIT starts with an empty queue).  So every AddReadPipe job that
\* was enqueued before the resample event was signaled is taken before the
\* fence's next waitset service.
C27_ResampleRequeuesBehindAddReadPipe ==
    [][/\ ResampleServed =>
            /\ resample_evt' = "clear"
            /\ signaled' = signaled
            /\ rings' = rings
            /\ wjobs' = Append(wjobs, Job("HandleFence", worker.fence))
            /\ worker'.pc = "wait_for_job"
       /\ wjobs' # wjobs =>
            \/ (worker.pc = "wait_for_job" /\ wjobs # <<>> /\ wjobs' = Tail(wjobs))
            \/ (Len(wjobs') = Len(wjobs) + 1
                  /\ SubSeq(wjobs', 1, Len(wjobs)) = wjobs)
            \/ (call'.op = "initialize" /\ ncmd' # ncmd /\ wjobs' = <<>>)]_vars

\* A fence that was queued again by the RESAMPLE arm is in its next waitset
\* service, the read pipe of the SEND that raised the resample event is in
\* the waitset and no AddReadPipe job is left in the queue.
C27_Witness ==
    /\ worker.pc = "wait_ctx"
    /\ worker.fence \in requeued
    /\ job.services = 0
    /\ \E e \in wait_ctx : e.k = "pipe"
    /\ \A i \in DOMAIN wjobs : wjobs[i].type # "AddReadPipe"

\* ---------------------------------------------------------------------- C28
\* The identifiers add_item can give to read pipes.
ReadPipeIds ==
    (CROSS_DOMAIN_PIPE_READ_START + 1) .. (CROSS_DOMAIN_PIPE_READ_START + MaxCmds)

\* A successful SEND created read pipe i and its AddReadPipe job is in the
\* worker's queue.
AddReadPipeQueued(i) ==
    /\ i \in DOMAIN pipes
    /\ pipes[i].send = "ok"
    /\ \E k \in DOMAIN wjobs : wjobs[k] = Job("AddReadPipe", i)

\* C28: after a successful SEND that created read pipe i, the worker
\* eventually has i in its waitset, wherever the worker was when the SEND
\* ran.
C28_ReadPipeGetsRegistered ==
    \A i \in ReadPipeIds :
        AddReadPipeQueued(i) ~> (Src(i, "pipe", i) \in wait_ctx)


\* FUTEX_NEW{id} has returned Ok and its AddFutex job is in the worker's
\* queue.
AddFutexQueued(id) ==
    /\ id \in DOMAIN futexes
    /\ \E k \in DOMAIN wjobs : wjobs[k] = Job("AddFutex", id)

\* C29: after a successful FUTEX_NEW{id} on a channelled context the worker
\* eventually has the futex's event in its waitset, also when it was blocked
\* in a waitset service with no event ready when FUTEX_NEW ran.
C29_FutexGetsRegistered ==
    \A id \in LiveFutexIds :
        AddFutexQueued(id) ~> (Src(id, "futex", id) \in wait_ctx)


\* FUTEX_DESTROY{id} is inside shutdown, waiting in the join of the watcher:
\* the flag is set, the word is flipped and wake-all has been issued.
ShutdownJoins(id) == dpc.pc = "futex_destroy_join" /\ dpc.arg = id

\* C30: FUTEX_DESTROY always returns.  Wherever the watcher is when shutdown
\* has set the flag, flipped the word and woken every waiter, the join
\* completes, unless the guest rewrites the word while shutdown waits.
C30_FutexDestroyReturns ==
    \A id \in LiveFutexIds :
        ShutdownJoins(id)
            ~> \/ dpc.pc = "idle"
               \/ (id \in DOMAIN futexes /\ futexes[id].rewritten)


\* C31: a FUTEX_SIGNAL never wakes the watcher out of its wait and makes
\* nothing happen on the host (no watcher signal, no job, no record, no
\* fence), whereas shutdown's wake always takes a waiting watcher out of its
\* wait.
C31_GuestWakeMissesTheWatcher ==
    [][\A id \in LiveFutexIds :
          /\ futex_signal(id) =>
                UNCHANGED <<futexes, wjobs, wait_ctx, worker, rings, signaled>>
          /\ (futex_destroy(id) /\ id \in DOMAIN futexes
                 /\ futexes[id].wt = "blocked") =>
                futexes'[id].wt = "load"]_vars

\* FUTEX_SIGNAL has returned Ok after a store to the word and the watcher is
\* still inside its wait.
C31_Witness == \E id \in LiveFutexIds : SignalAfterStore(id)


\* C32: no wake of the host side is lost.  After the word was changed to v
\* and a wake that matches the watcher's bitset was issued, wherever the
\* watcher was in its loop, the watcher signals its event with v loaded,
\* unless the word changes again or the futex is shut down.
C32_NoWakeIsLost ==
    \A id \in LiveFutexIds, v \in WordVals :
        (id \in DOMAIN futexes /\ futexes[id].owed /\ futexes[id].word = v)
            ~> \/ id \notin DOMAIN futexes
               \/ ~futexes[id].owed
               \/ futexes[id].word # v
               \/ futexes[id].shutdown


\* The worker thread does not run: it was never started, or it has returned.
WorkerGone == worker.pc \in {"none", "returned", "halted"}

\* C33: a mapping is unmapped only after the watcher of its futex has exited
\* and been joined: by futex_destroy earlier, or by the drop of the entry in
\* the same step; and the drop of a context touches its futex table only
\* after the worker thread has been joined.
C33_UnmappedAfterTheJoin ==
    [][/\ \A id \in mapped \ mapped' :
              /\ futexes[id].wt = "exit"
              /\ futexes[id].joined \/ dpc.pc = "drop_fields"
       /\ (dpc.pc = "drop_fields" /\ futexes' # futexes) =>
              (WorkerGone /\ call.op = "drop")]_vars

\* A channelled context was dropped: its worker has returned and the futex
\* the worker had registered is gone and unmapped.
C33_Witness ==
    /\ dpc.pc = "dropped"
    /\ worker.pc = "returned"
    /\ mapped = {}
    /\ \E id \in FutexIds : Src(id, "futex", id) \in wait_ctx


\* C34: while the context lives, an entry leaves the futex table only in the
\* worker's service of that futex's event, when the entry is shut down; the
\* same step takes the event out of the waitset and queues the fence again
\* without signaling it.  No futex event is in the waitset without its
\* entry in the table.
C34_OnlyTheWorkerRemovesAFutex ==
    [][call'.op # "drop" =>
          /\ \A id \in DOMAIN futexes \ DOMAIN futexes' :
                /\ worker.pc = "service"
                /\ worker.event.cid = id
                /\ Arm(id) = "FUTEX"
                /\ futexes[id].shutdown
                /\ Src(id, "futex", id) \notin wait_ctx'
                /\ wjobs' = Append(wjobs, Job("HandleFence", worker.fence))
                /\ signaled' = signaled
          /\ \A e \in wait_ctx' : e.k = "futex" => e.id \in DOMAIN futexes']_vars

\* The worker has served the event of a destroyed futex: the entry is gone,
\* its event is out of the waitset and the fence is back in the queue.
C34_Witness ==
    /\ call.op # "drop"
    /\ job.event = "FUTEX_SHUTDOWN"
    /\ futexes = EmptyMap
    /\ \E k \in DOMAIN wjobs : wjobs[k].type = "HandleFence" /\ wjobs[k].arg \in requeued
    /\ \A e \in wait_ctx : e.k # "futex"


\* Thread t is about to take a Mutex.
Acquiring(t) == locks[t].path # <<>> /\ Head(locks[t].path).op = "lock"

\* C35: no thread holds one of the four Mutexes of the context while it
\* takes another of them.
C35_LeafLocks ==
    \A t \in Threads : Acquiring(t) => locks[t].held = <<>>


\* C36: an event of a futex is served by the futex arm of handle_fence: the
\* connection id of a futex's waitset entry is none of CHANNEL, RESAMPLE and
\* KILL and lies below the read-pipe range.
C36_FutexEventsReachTheFutexArm ==
    /\ \A e \in wait_ctx : e.k = "futex" => Arm(e.cid) = "FUTEX"
    /\ (worker.pc = "service" /\ worker.event.k = "futex") =>
           Arm(worker.event.cid) = "FUTEX"


\* C37: a FUTEX_DESTROY of a futex that was destroyed before and is still in
\* the table does not abort the dispatcher: no command ends in a panic.
C37_SecondDestroyReturns == dpc.pc # "panicked"


\* Fence f is with the worker: in its job queue, held inside a waitset
\* service, or signaled.
WithTheWorker(f) ==
    \/ \E k \in DOMAIN wjobs : wjobs[k] = Job("HandleFence", f)
    \/ worker.fence = f
    \/ f \in Range(signaled)

\* C38: no fence is signaled twice, and a fence that is with the worker
\* stays with it (queued, held or signaled) in every step that does not halt
\* the worker on an error.
C38_NoFenceIsLostOrSignaledTwice ==
    [][/\ \A i, j \in DOMAIN signaled' : signaled'[i] = signaled'[j] => i = j
       /\ worker'.pc # "halted" =>
             \A f \in FenceIds : WithTheWorker(f) => WithTheWorker(f)']_vars


\* C39: a WRITE or a context_create_blob that fails with
\* InvalidCrossDomainItemType leaves the item table as it was: the item it
\* named is still in the table under its identifier.
C39_WrongVariantLeavesTheItem ==
    [][(/\ ncmd' # ncmd
        /\ call'.op \in {"write", "context_create_blob"}
        /\ result' = "InvalidCrossDomainItemType") =>
           /\ items' = items
           /\ call'.arg \in DOMAIN items'.table]_vars


\* The step is the CHANNEL arm writing its RECEIVE record to the ring.
WritesReceive ==
    /\ worker.pc = "service"
    /\ worker.event.k = "channel"
    /\ job'.writes # job.writes

\* C40: the RECEIVE record the worker writes has at most MAX_IDENTIFIERS
\* identifiers, as many as the worker installed items for the message, and
\* when the fence is signaled each of the first num_identifiers identifiers
\* names an item of the table.
C40_ReceiveNamesItsItems ==
    [][WritesReceive =>
         /\ cmd_receive.num_identifiers <= CROSS_DOMAIN_MAX_IDENTIFIERS
         /\ cmd_receive.num_identifiers = cmd_receive.installed
         /\ signaled' # signaled =>
               \A k \in 1..cmd_receive.num_identifiers :
                  /\ k <= CROSS_DOMAIN_MAX_IDENTIFIERS
                  /\ cmd_receive.identifiers[k] \in DOMAIN items'.table]_vars

====
